---- MODULE Spec2Model ----
(***************************************************************************)
(* A model of the lift HTTP client: the asynchronous EventLoop             *)
(* (src/src/EventLoop.cpp) with its producers, its I/O thread, its         *)
(* destructor and the transport it drives, and the Request builder         *)
(* (src/src/Request.cpp).                                                  *)
(***************************************************************************)
EXTENDS Integers, Sequences, FiniteSets, TLC

\* ------------------------------------------------------------------ bounds
\* Number of requests the producers submit in one run.
MaxReq == 2
\* The wall clock runs from 0 to MaxTime (milliseconds).
MaxTime == 2
\* The clock's range where the claim is about elapsed time.
LongTime == 3
\* The clock's range where the mutex is modelled step by step.
LockTime == 1
\* A Request is performed at most MaxPerform times.
MaxPerform == 2
\* A time's-up budget is 1..MaxBudget milliseconds (0 stands for "none").
MaxBudget == 1
\* An armed uv timer is dispatched at most TimerSlack ticks after it is due.
TimerSlack == 1
\* Longest MIME field list the builder model produces.
MaxMime == 2
\* FollowRedirects is called with a bound in -MaxRedirect-1 .. MaxRedirect.
MaxRedirect == 2
\* The transport has sockets 1..MaxSock open at most.
MaxSock == 2
\* The loop makes at most MaxCtx CurlContext objects.
MaxCtx == 2
\* The transport asks for timeouts of up to MaxTimeout milliseconds.
MaxTimeout == 1

Producers == {"p1", "p2"}
\* The threads that can be inside StartRequest: the producers, and the I/O
\* thread when an on-complete handler calls it.
Callers == Producers \cup {"io"}
ReqIds == 1..MaxReq
Budgets == 0..MaxBudget
\* Completion codes the transport reports for a finished transfer.
TransportCodes == {"CURLE_OK", "CURLE_OPERATION_TIMEDOUT"}
Handles == {"async", "timeout_timer", "timesup_timer"}
\* The sockets of the transport and the CurlContext objects the loop can make.
Sockets == 1..MaxSock
CtxIds == 1..MaxCtx
\* The timeouts CURLMOPT_TIMERFUNCTION is called with: -1 deletes the timer.
TimeoutValues == -1..MaxTimeout
\* The actions CURLMOPT_SOCKETFUNCTION is called with.
PollActions == {"CURL_POLL_NONE", "CURL_POLL_IN", "CURL_POLL_OUT", "CURL_POLL_INOUT",
                "CURL_POLL_REMOVE"}

VARIABLES
    \* ---- EventLoop members
    m_is_running,             \* std::atomic<bool>
    m_is_stopping,            \* std::atomic<bool>
    m_active_request_count,   \* std::atomic<uint64_t>
    m_pending_requests,       \* vector of executors, guarded by the lock
    m_pending_requests_lock,  \* "none" or the thread holding the mutex
    m_grabbed_requests,       \* the I/O thread's scratch vector
    m_timesup,                \* multimap deadline -> executor, as a sorted sequence
    m_closed,                 \* the handles whose close callback has run
    \* ---- libuv
    clock,                    \* wall clock
    async_pending,            \* uv_async_send was called and not yet dispatched
    timesup_timer,            \* [armed, due] of m_timesup_timer
    closing,                  \* handles given to uv_close, callback not yet run
    stop_flag,                \* uv_stop was called
    \* ---- transport (curl multi handle)
    multi,                    \* executors whose easy handle is in the multi handle
    msgs,                     \* completion messages not yet read
    \* ---- objects
    requests,                 \* per request: who submitted it and with what
    executors,                \* per executor: the Executor's fields
    \* ---- threads
    pc,                       \* per producer: its place in StartRequest
    cur,                      \* per producer: the request it is submitting
    dtor_pc,                  \* the place of the thread running ~EventLoop
    io_pc,                    \* the place of the I/O thread
    drain_idx,                \* index into m_grabbed_requests of the drain loop
    iter,                     \* iterator of on_uv_timesup_callback's loop
    cb,                       \* the on-complete invocation in progress
    crashed,                  \* the process has died on an invalid access
    \* ---- history
    deliveries,               \* every on-complete invocation, in order
    add_log,                  \* executors in the order curl_multi_add_handle saw them
    inflight_at_stop,         \* the executors alive when ~EventLoop set m_is_stopping
    \* ---- Request builder
    rq,                       \* the fields of a Request under construction
    rq_last,                  \* outcome of the last builder call
    \* ---- transport callbacks
    m_timeout_timer,          \* [armed, due] of the transport-timeout timer
    timeout_call,             \* the last call of curl_start_timeout / on_uv_timeout_callback
    contexts,                 \* per CurlContext: where it is, its socket, what it polls
    socketp,                  \* per socket: the context curl_multi_assign attached to it
    m_curl_context_ready,     \* std::deque of contexts that can be used again
    \* ---- constructor
    ctor_pc                   \* the place of the thread running EventLoop::EventLoop

loop_vars == <<m_is_running, m_is_stopping, m_active_request_count,
               m_pending_requests, m_pending_requests_lock, m_grabbed_requests,
               m_timesup, m_closed>>
uv_vars == <<clock, async_pending, timesup_timer, closing, stop_flag>>
curl_vars == <<multi, msgs>>
obj_vars == <<requests, executors>>
thread_vars == <<pc, cur, dtor_pc, io_pc, drain_idx, iter, cb, crashed>>
hist_vars == <<deliveries, add_log, inflight_at_stop>>
rq_vars == <<rq, rq_last>>
tr_vars == <<m_timeout_timer, timeout_call, contexts, socketp, m_curl_context_ready,
             ctor_pc>>
vars == <<loop_vars, uv_vars, curl_vars, obj_vars, thread_vars, hist_vars, rq_vars, tr_vars>>

\* ------------------------------------------------------------------ helpers
\* uv_now(m_loop): the loop's time. Callbacks of the loop run in no time (the
\* clock moves only while the I/O thread is in uv_run's poll), so the cached
\* time a callback reads is the clock.
uv_now == clock

Max(a, b) == IF a >= b THEN a ELSE b

RemoveAt(s, i) == [k \in 1..(Len(s) - 1) |-> IF k < i THEN s[k] ELSE s[k + 1]]

InsertAt(s, i, x) ==
    [k \in 1..(Len(s) + 1) |-> IF k < i THEN s[k] ELSE IF k = i THEN x ELSE s[k - 1]]

\* All orderings of the finite set S, as sequences without repetition.
Orderings(S) ==
    {s \in [1..Cardinality(S) -> S] : \A i, j \in 1..Cardinality(S) : i # j => s[i] # s[j]}

NoRequest == [used |-> FALSE, by |-> "none", handler |-> 0, timesup |-> 0,
              late |-> FALSE, at |-> 0, result |-> "none"]

NoExecutor == [state |-> "none", m_request_async |-> 0,
               m_on_complete_callback_called |-> FALSE,
               m_timesup_iterator |-> FALSE,
               m_response |-> [m_lift_status |-> "BUILDING", m_total_time |-> 0]]

NoCallback == [e |-> 0, from |-> "none"]

\* No call on the Request yet: the last call, whether it threw std::logic_error,
\* whether some Data() / some MimeField() call has returned normally, the
\* number of Perform() calls, the status of the Response the last one returned
\* the arguments of the last FollowRedirects call and the argument of the last
\* Data call.
RqNoCall == [op |-> "none", threw |-> FALSE, data_ok |-> FALSE, mime_ok |-> FALSE,
             performs |-> 0, response |-> "none",
             follow_redirects |-> TRUE, max_redirects |-> -1, data |-> ""]

DataValues == {"", "x"}
MimeValues == {"k"}
Methods == {"GET", "POST", "PUT"}

RqInit == [m_request_data_set |-> FALSE, m_request_data |-> "",
           m_mime_fields_set |-> FALSE, m_mime_fields |-> <<>>,
           m_method |-> "GET", m_follow_redirects |-> TRUE, m_max_redirects |-> -1]

\* ------------------------------------------------------------------ Init
NoTimeoutCall == [op |-> "none", timeout_ms |-> 0, check |-> "none", seq |-> 0]

NoContext == [state |-> "none", m_sock_fd |-> 0, events |-> "none"]

\* The members as their initializers and the constructor's body leave them.
InitLoop ==
    /\ m_is_stopping = FALSE
    /\ m_active_request_count = 0
    /\ m_pending_requests = <<>>
    /\ m_pending_requests_lock = "none"
    /\ m_grabbed_requests = <<>>
    /\ m_timesup = <<>>
    /\ m_closed = {}
    /\ clock = 0
    /\ async_pending = FALSE
    /\ timesup_timer = [armed |-> FALSE, due |-> 0, slack |-> 0]
    /\ closing = {}
    /\ stop_flag = FALSE
    /\ multi = {}
    /\ msgs = <<>>
    /\ requests = [r \in ReqIds |-> NoRequest]
    /\ executors = [e \in ReqIds |-> NoExecutor]
    /\ pc = [t \in Callers |-> "idle"]
    /\ cur = [t \in Callers |-> 0]
    /\ dtor_pc = "none"
    /\ drain_idx = 0
    /\ iter = 0
    /\ cb = NoCallback
    /\ crashed = FALSE
    /\ deliveries = <<>>
    /\ add_log = <<>>
    /\ inflight_at_stop = {}
    /\ rq = RqInit
    /\ rq_last = RqNoCall
    /\ m_timeout_timer = [armed |-> FALSE, due |-> 0]
    /\ timeout_call = NoTimeoutCall
    /\ contexts = [c \in CtxIds |-> NoContext]
    /\ socketp = [sock \in Sockets |-> 0]
    /\ m_curl_context_ready = <<>>

\* The state when the EventLoop constructor has returned: the I/O thread is in
\* uv_run, nothing has been submitted.
Init ==
    /\ InitLoop
    /\ m_is_running = TRUE
    /\ io_pc = "idle"
    /\ ctor_pc = "done"

\* The state when the constructor is entered.
InitConstruct ==
    /\ InitLoop
    /\ m_is_running = FALSE
    /\ io_pc = "unstarted"
    /\ ctor_pc = "init"

\* ------------------------------------------------------------------ Executor
\* Executor::convert: the transport's completion code as a LiftStatus.
convert(curl_code) ==
    CASE curl_code = "CURLE_OK" -> "SUCCESS"
      [] curl_code = "CURLE_OPERATION_TIMEDOUT" -> "TIMEOUT"
      [] curl_code = "CURLE_COULDNT_CONNECT" -> "CONNECT_ERROR"
      [] curl_code = "CURLE_SEND_ERROR" -> "ERROR_FAILED_TO_START"
      [] OTHER -> "ERROR"

\* Executor::make followed by Executor::prepare: the executor owns the request
\* and its response is marked as executing.
PreparedExecutor(r) ==
    [NoExecutor EXCEPT !.state = "alive", !.m_request_async = r,
                       !.m_response = [m_lift_status |-> "EXECUTING", m_total_time |-> 0]]

\* Executor::copyCurlToResponse: fills the response from the easy handle (the
\* total time curl measured is written as -1); the status set by the caller stays.
copyCurlToResponse(resp) == [resp EXCEPT !.m_total_time = -1]

\* Executor::setTimesupResponse: the synthetic response of the time's-up path.
setTimesupResponse(resp, budget) == [resp EXCEPT !.m_total_time = budget]

\* The terminal values of LiftStatus.
TerminalStatus == {"SUCCESS", "CONNECT_ERROR", "CONNECT_DNS_ERROR", "CONNECT_SSL_ERROR",
                   "DOWNLOAD_ERROR", "TIMEOUT", "TIMESUP", "REQUEST_EMPTY", "ERROR",
                   "ERROR_FAILED_TO_START"}

\* ------------------------------------------------------------------ timer index
\* std::multimap::emplace: after every entry whose key is not greater.
TimesupEmplace(ts, tp, e) ==
    LET before == {k \in 1..Len(ts) : ts[k].tp <= tp}
    IN  InsertAt(ts, Cardinality(before) + 1, [tp |-> tp, e |-> e])

\* The position of the entry an executor's m_timesup_iterator points at.
TimesupPos(ts, e) == CHOOSE k \in 1..Len(ts) : ts[k].e = e

\* std::multimap::erase(iterator).
TimesupErase(ts, e) == RemoveAt(ts, TimesupPos(ts, e))

\* An updateTimesup that starts the timer whether or not the index is empty.
updateTimesup_always_start(ts, now) ==
    IF ts # <<>>
    THEN LET first == ts[1].tp
             timer_value == IF first > now THEN first - now ELSE 0
         IN  [armed |-> TRUE, due |-> now + timer_value,
              slack |-> IF timer_value > 0 THEN TimerSlack ELSE 0]
    ELSE [armed |-> TRUE, due |-> now, slack |-> 0]

\* EventLoop::updateTimesup: the time's-up timer after the index changed. A
\* timer started with a timeout of 0 fires on the loop's next iteration; one
\* started with a later due time may be dispatched up to TimerSlack late.
updateTimesup(ts, now) ==
    IF ts # <<>>
    THEN LET first == ts[1].tp
             timer_value == IF first > now THEN first - now ELSE 0
         IN  [armed |-> TRUE, due |-> now + timer_value,
              slack |-> IF timer_value > 0 THEN TimerSlack ELSE 0]
    ELSE [armed |-> FALSE, due |-> 0, slack |-> 0]

\* addTimesup that leaves the timer as it was.
addTimesup_no_update(ts, timer, exs, e, now) ==
    IF requests[e].timesup > 0 /\ ~exs[e].m_timesup_iterator
    THEN [ts |-> TimesupEmplace(ts, now + requests[e].timesup, e), has |-> TRUE,
          timer |-> timer]
    ELSE [ts |-> ts, has |-> exs[e].m_timesup_iterator, timer |-> timer]

\* EventLoop::addTimesup on executor e: the index, the executor's iterator and
\* the timer afterwards.
addTimesup(ts, timer, exs, e, now) ==
    IF requests[e].timesup > 0 /\ ~exs[e].m_timesup_iterator
    THEN LET ts2 == TimesupEmplace(ts, now + requests[e].timesup, e)
         IN  [ts |-> ts2, has |-> TRUE, timer |-> updateTimesup(ts2, now)]
    ELSE [ts |-> ts, has |-> exs[e].m_timesup_iterator, timer |-> timer]

\* EventLoop::removeTimesup on executor e: the index, the timer and the
\* returned iterator (a position; Len + 1 is end()).
removeTimesup(ts, timer, exs, e, now) ==
    IF exs[e].m_timesup_iterator
    THEN LET k == TimesupPos(ts, e)
             ts2 == RemoveAt(ts, k)
         IN  [ts |-> ts2, timer |-> updateTimesup(ts2, now), next |-> k]
    ELSE [ts |-> ts, timer |-> timer, next |-> Len(ts) + 1]

\* ------------------------------------------------------------------ producers
Unused == {r \in ReqIds : ~requests[r].used}
NextReq == CHOOSE r \in Unused : \A q \in Unused : r <= q

\* StartRequest without the check of m_is_stopping.
StartRequest_check_unchecked(t, h, b) ==
    /\ ~crashed
    /\ ctor_pc = "done"
    /\ pc[t] = "idle"
    /\ Unused # {}
    /\ (t = "p2" => requests[1].used)
    /\ (t = "io" => io_pc = "handler")
    /\ LET r == NextReq
       IN  /\ h \in {0, r}
           /\ requests' = [requests EXCEPT ![r] =
                  [used |-> TRUE, by |-> t, handler |-> h, timesup |-> b,
                   late |-> m_is_stopping, at |-> clock, result |-> "started"]]
           /\ pc' = [pc EXCEPT ![t] = "count"]
           /\ cur' = [cur EXCEPT ![t] = r]
    /\ UNCHANGED <<loop_vars, uv_vars, curl_vars, executors, dtor_pc, io_pc,
                   drain_idx, iter, cb, crashed, hist_vars, rq_vars, tr_vars>>

\* EventLoop::StartRequest, the check of the stopping flag: thread t calls
\* StartRequest with a fresh request that carries handler h (0: none) and
\* time's-up budget b (0: none). (The producers run the same code: the first
\* call of a run is taken to be p1's.)
StartRequest_check(t, h, b) ==
    /\ ~crashed
    /\ ctor_pc = "done"
    /\ pc[t] = "idle"
    /\ Unused # {}
    /\ (t = "p2" => requests[1].used)
    /\ (t = "io" => io_pc = "handler")
    /\ LET r == NextReq
       IN  /\ h \in {0, r}
           /\ requests' = [requests EXCEPT ![r] =
                  [used |-> TRUE, by |-> t, handler |-> h, timesup |-> b,
                   late |-> m_is_stopping, at |-> clock,
                   result |-> IF m_is_stopping THEN "false" ELSE "started"]]
           /\ IF m_is_stopping
              THEN UNCHANGED <<pc, cur>>
              ELSE /\ pc' = [pc EXCEPT ![t] = "count"]
                   /\ cur' = [cur EXCEPT ![t] = r]
    /\ UNCHANGED <<loop_vars, uv_vars, curl_vars, executors, dtor_pc, io_pc,
                   drain_idx, iter, cb, crashed, hist_vars, rq_vars, tr_vars>>

\* ++m_active_request_count, then Executor::make and prepare on the caller's thread.
StartRequest_count(t) ==
    /\ ~crashed
    /\ pc[t] = "count"
    /\ m_active_request_count' = m_active_request_count + 1
    /\ executors' = [executors EXCEPT ![cur[t]] = PreparedExecutor(cur[t])]
    /\ pc' = [pc EXCEPT ![t] = "push"]
    /\ UNCHANGED <<m_is_running, m_is_stopping, m_pending_requests,
                   m_pending_requests_lock, m_grabbed_requests, m_timesup, m_closed,
                   uv_vars, curl_vars, requests, cur, dtor_pc, io_pc, drain_idx, iter,
                   cb, crashed, hist_vars, rq_vars, tr_vars>>

\* The block under std::lock_guard: the lock is taken when free,
\* m_pending_requests.emplace_back runs and the lock is released.
StartRequest_push(t) ==
    /\ ~crashed
    /\ pc[t] = "push"
    /\ m_pending_requests_lock = "none"
    /\ m_pending_requests' = Append(m_pending_requests, cur[t])
    /\ pc' = [pc EXCEPT ![t] = "send"]
    /\ UNCHANGED <<m_is_running, m_is_stopping, m_active_request_count,
                   m_pending_requests_lock, m_grabbed_requests, m_timesup, m_closed,
                   uv_vars, curl_vars, obj_vars, cur, dtor_pc, io_pc, drain_idx, iter,
                   cb, crashed, hist_vars, rq_vars, tr_vars>>

\* The same block in three steps: std::lock_guard's constructor takes the
\* mutex when it is free ...
StartRequest_lock(t) ==
    /\ ~crashed
    /\ pc[t] = "push"
    /\ m_pending_requests_lock = "none"
    /\ m_pending_requests_lock' = t
    /\ pc' = [pc EXCEPT ![t] = "emplace"]
    /\ UNCHANGED <<m_is_running, m_is_stopping, m_active_request_count,
                   m_pending_requests, m_grabbed_requests, m_timesup, m_closed,
                   uv_vars, curl_vars, obj_vars, cur, dtor_pc, io_pc, drain_idx, iter,
                   cb, crashed, hist_vars, rq_vars, tr_vars>>

\* ... m_pending_requests.emplace_back(std::move(executor_ptr)) ...
StartRequest_emplace(t) ==
    /\ ~crashed
    /\ pc[t] = "emplace"
    /\ m_pending_requests' = Append(m_pending_requests, cur[t])
    /\ pc' = [pc EXCEPT ![t] = "unlock"]
    /\ UNCHANGED <<m_is_running, m_is_stopping, m_active_request_count,
                   m_pending_requests_lock, m_grabbed_requests, m_timesup, m_closed,
                   uv_vars, curl_vars, obj_vars, cur, dtor_pc, io_pc, drain_idx, iter,
                   cb, crashed, hist_vars, rq_vars, tr_vars>>

\* ... and the guard's destructor releases it.
StartRequest_unlock(t) ==
    /\ ~crashed
    /\ pc[t] = "unlock"
    /\ m_pending_requests_lock' = "none"
    /\ pc' = [pc EXCEPT ![t] = "send"]
    /\ UNCHANGED <<m_is_running, m_is_stopping, m_active_request_count,
                   m_pending_requests, m_grabbed_requests, m_timesup, m_closed,
                   uv_vars, curl_vars, obj_vars, cur, dtor_pc, io_pc, drain_idx, iter,
                   cb, crashed, hist_vars, rq_vars, tr_vars>>

\* A StartRequest that goes on writing to the executor after it has pushed it.
StartRequest_send_prepare(t) ==
    /\ ~crashed
    /\ pc[t] = "send"
    /\ async_pending' = TRUE
    /\ requests' = [requests EXCEPT ![cur[t]].result = "true"]
    /\ executors' = [executors EXCEPT ![cur[t]].m_response =
                         [m_lift_status |-> "EXECUTING", m_total_time |-> 0]]
    /\ pc' = [pc EXCEPT ![t] = "idle"]
    /\ cur' = [cur EXCEPT ![t] = 0]
    /\ UNCHANGED <<loop_vars, clock, timesup_timer, closing, stop_flag,
                   curl_vars, dtor_pc, io_pc, drain_idx, iter, cb, crashed,
                   hist_vars, rq_vars, tr_vars>>

\* uv_async_send and return true.
StartRequest_send(t) ==
    /\ ~crashed
    /\ pc[t] = "send"
    /\ async_pending' = TRUE
    /\ requests' = [requests EXCEPT ![cur[t]].result = "true"]
    /\ pc' = [pc EXCEPT ![t] = "idle"]
    /\ cur' = [cur EXCEPT ![t] = 0]
    /\ UNCHANGED <<loop_vars, clock, timesup_timer, closing, stop_flag,
                   curl_vars, executors, dtor_pc, io_pc, drain_idx, iter, cb, crashed,
                   hist_vars, rq_vars, tr_vars>>

\* EventLoop::Stop.
Stop ==
    /\ ~crashed
    /\ ~m_is_stopping
    /\ m_is_stopping' = TRUE
    /\ UNCHANGED <<m_is_running, m_active_request_count, m_pending_requests,
                   m_pending_requests_lock, m_grabbed_requests, m_timesup, m_closed,
                   uv_vars, curl_vars, obj_vars, thread_vars, hist_vars, rq_vars, tr_vars>>


\* ------------------------------------------------------------------ completion
\* The handler completeRequestNormal / completeRequestTimesup reads through
\* executor_ptr->m_request_async (0: the pointer is null, nothing to call).
HandlerOf(exs, e) ==
    IF exs[e].m_request_async = 0 THEN 0 ELSE requests[exs[e].m_request_async].handler

\* An invocation through one handler slot shared by the whole loop (the handler
\* of the request submitted last) instead of the request's own.
Invocation_shared_handler(exs, e, resp, path) ==
    [handler |-> Max(requests[1].handler, requests[MaxReq].handler),
     request |-> exs[e].m_request_async, resp_of |-> e,
     status |-> resp.m_lift_status, total_time |-> resp.m_total_time,
     path |-> path, thread |-> "io"]

\* The record of one on-complete invocation: the handler called, the request
\* and the response moved into it, the path and the thread it ran on.
Invocation(exs, e, resp, path) ==
    [handler |-> HandlerOf(exs, e), request |-> exs[e].m_request_async, resp_of |-> e,
     status |-> resp.m_lift_status, total_time |-> resp.m_total_time,
     path |-> path, thread |-> "io"]

\* ~Executor at the end of completeRequestNormal's caller: the memory is freed,
\* its last contents stay readable through a dangling pointer.
Destroyed(ex) == [ex EXCEPT !.state = "destroyed", !.m_request_async = 0]

\* completeRequestNormal that counts the request down only where it calls the
\* handler.
completeRequestNormal_count_with_handler(e, status, from, exs, ts, timer) ==
    IF ~exs[e].m_on_complete_callback_called /\ HandlerOf(exs, e) # 0
    THEN LET resp == copyCurlToResponse([exs[e].m_response EXCEPT !.m_lift_status = status])
             rm == removeTimesup(ts, timer, exs, e, uv_now)
         IN  /\ executors' = [exs EXCEPT ![e].m_on_complete_callback_called = TRUE,
                                         ![e].m_response = resp,
                                         ![e].m_timesup_iterator = FALSE,
                                         ![e].m_request_async = 0]
             /\ m_timesup' = rm.ts
             /\ timesup_timer' = rm.timer
             /\ deliveries' = Append(deliveries, Invocation(exs, e, resp, from))
             /\ io_pc' = "handler"
             /\ cb' = [e |-> e, from |-> from]
             /\ UNCHANGED <<m_active_request_count, drain_idx>>
    ELSE /\ executors' = [exs EXCEPT ![e] = Destroyed(exs[e])]
         /\ m_timesup' = ts
         /\ timesup_timer' = timer
         /\ io_pc' = IF from = "check" THEN "check" ELSE "drain"
         /\ drain_idx' = IF from = "check" THEN drain_idx ELSE drain_idx + 1
         /\ UNCHANGED <<m_active_request_count, deliveries, cb>>

\* EventLoop::completeRequestNormal on executor e, called from checkActions
\* (from = "check") or from the drain after a rejected add (from = "reject"),
\* with exs, ts and timer the executors, index and timer as the caller left them.
completeRequestNormal(e, status, from, exs, ts, timer) ==
    IF ~exs[e].m_on_complete_callback_called /\ HandlerOf(exs, e) # 0
    THEN LET resp == copyCurlToResponse([exs[e].m_response EXCEPT !.m_lift_status = status])
             rm == removeTimesup(ts, timer, exs, e, uv_now)
         IN  /\ executors' = [exs EXCEPT ![e].m_on_complete_callback_called = TRUE,
                                         ![e].m_response = resp,
                                         ![e].m_timesup_iterator = FALSE,
                                         ![e].m_request_async = 0]
             /\ m_timesup' = rm.ts
             /\ timesup_timer' = rm.timer
             /\ deliveries' = Append(deliveries, Invocation(exs, e, resp, from))
             /\ io_pc' = "handler"
             /\ cb' = [e |-> e, from |-> from]
             /\ UNCHANGED <<m_active_request_count, drain_idx>>
    ELSE /\ executors' = [exs EXCEPT ![e] = Destroyed(exs[e])]
         /\ m_timesup' = ts
         /\ timesup_timer' = timer
         /\ m_active_request_count' = m_active_request_count - 1
         /\ io_pc' = IF from = "check" THEN "check" ELSE "drain"
         /\ drain_idx' = IF from = "check" THEN drain_idx ELSE drain_idx + 1
         /\ UNCHANGED <<deliveries, cb>>

\* A return from the handler that counts the request down after a time's-up
\* delivery as well.
HandlerReturn_count_timesup ==
    /\ ~crashed
    /\ io_pc = "handler"
    /\ pc["io"] = "idle"
    /\ cb' = NoCallback
    /\ m_active_request_count' = m_active_request_count - 1
    /\ IF cb.from = "timesup"
       THEN LET rm == removeTimesup(m_timesup, timesup_timer, executors, cb.e, uv_now)
            IN  /\ m_timesup' = rm.ts
                /\ timesup_timer' = rm.timer
                /\ iter' = rm.next
                /\ executors' = [executors EXCEPT ![cb.e].m_timesup_iterator = FALSE]
                /\ io_pc' = "timesup"
                /\ UNCHANGED drain_idx
       ELSE /\ executors' = [executors EXCEPT ![cb.e] = Destroyed(executors[cb.e])]
            /\ io_pc' = IF cb.from = "check" THEN "check" ELSE "drain"
            /\ drain_idx' = IF cb.from = "check" THEN drain_idx ELSE drain_idx + 1
            /\ UNCHANGED <<m_timesup, timesup_timer, iter>>
    /\ UNCHANGED <<m_is_running, m_is_stopping, m_pending_requests,
                   m_pending_requests_lock, m_grabbed_requests, m_closed,
                   clock, async_pending, closing, stop_flag,
                   curl_vars, requests, pc, cur, dtor_pc, crashed, hist_vars, rq_vars,
                   tr_vars>>

\* The on-complete handler returns (any StartRequest call it made has
\* returned) into completeRequestNormal (the count goes
\* down and the executor is destroyed) or into on_uv_timesup_callback (the
\* entry is removed and the loop goes on with the returned iterator).
HandlerReturn ==
    /\ ~crashed
    /\ io_pc = "handler"
    /\ pc["io"] = "idle"
    /\ cb' = NoCallback
    /\ IF cb.from = "timesup"
       THEN LET rm == removeTimesup(m_timesup, timesup_timer, executors, cb.e, uv_now)
            IN  /\ m_timesup' = rm.ts
                /\ timesup_timer' = rm.timer
                /\ iter' = rm.next
                /\ executors' = [executors EXCEPT ![cb.e].m_timesup_iterator = FALSE]
                /\ io_pc' = "timesup"
                /\ UNCHANGED <<m_active_request_count, drain_idx>>
       ELSE /\ m_active_request_count' = m_active_request_count - 1
            /\ executors' = [executors EXCEPT ![cb.e] = Destroyed(executors[cb.e])]
            /\ io_pc' = IF cb.from = "check" THEN "check" ELSE "drain"
            /\ drain_idx' = IF cb.from = "check" THEN drain_idx ELSE drain_idx + 1
            /\ UNCHANGED <<m_timesup, timesup_timer, iter>>
    /\ UNCHANGED <<m_is_running, m_is_stopping, m_pending_requests,
                   m_pending_requests_lock, m_grabbed_requests, m_closed,
                   clock, async_pending, closing, stop_flag,
                   curl_vars, requests, pc, cur, dtor_pc, crashed, hist_vars, rq_vars, tr_vars>>

\* ------------------------------------------------------------------ transport
\* What one run of curl_multi_socket_action can report: any of the transfers in
\* the multi handle that have no message yet finish, in any order, each with a
\* completion code.
Reported == {msgs[k].e : k \in 1..Len(msgs)}

Completions(inflight) ==
    UNION {UNION {{[k \in 1..Len(ord) |-> [e |-> ord[k], code |-> code[ord[k]]]] :
                       code \in [S -> TransportCodes]} :
                  ord \in Orderings(S)} :
           S \in SUBSET inflight}

\* ------------------------------------------------------------------ I/O thread
\* A drain that takes the pending requests newest first.
on_uv_requests_accept_async_swap_newest_first ==
    /\ ~crashed
    /\ io_pc = "idle"
    /\ async_pending
    /\ "async" \notin closing \cup m_closed
    /\ m_pending_requests_lock = "none"
    /\ async_pending' = FALSE
    /\ m_grabbed_requests' = [k \in 1..Len(m_pending_requests) |->
                                 m_pending_requests[Len(m_pending_requests) + 1 - k]]
    /\ m_pending_requests' = m_grabbed_requests
    /\ io_pc' = "drain"
    /\ drain_idx' = 1
    /\ UNCHANGED <<m_is_running, m_is_stopping, m_active_request_count,
                   m_pending_requests_lock, m_timesup, m_closed,
                   clock, timesup_timer, closing, stop_flag, curl_vars, obj_vars,
                   pc, cur, dtor_pc, iter, cb, crashed, hist_vars, rq_vars, tr_vars>>

\* on_uv_requests_accept_async is dispatched: under the lock (taken when free)
\* m_grabbed_requests.swap(m_pending_requests), then the lock is released.
on_uv_requests_accept_async_swap ==
    /\ ~crashed
    /\ io_pc = "idle"
    /\ async_pending
    /\ "async" \notin closing \cup m_closed
    /\ m_pending_requests_lock = "none"
    /\ async_pending' = FALSE
    /\ m_grabbed_requests' = m_pending_requests
    /\ m_pending_requests' = m_grabbed_requests
    /\ io_pc' = "drain"
    /\ drain_idx' = 1
    /\ UNCHANGED <<m_is_running, m_is_stopping, m_active_request_count,
                   m_pending_requests_lock, m_timesup, m_closed,
                   clock, timesup_timer, closing, stop_flag, curl_vars, obj_vars,
                   pc, cur, dtor_pc, iter, cb, crashed, hist_vars, rq_vars, tr_vars>>

\* A drain whose lock_guard lives to the end of the callback.
on_uv_requests_accept_async_unlock_at_end ==
    /\ ~crashed
    /\ io_pc = "unlock"
    /\ io_pc' = "drain"
    /\ drain_idx' = 1
    /\ UNCHANGED <<loop_vars, uv_vars, curl_vars, obj_vars,
                   pc, cur, dtor_pc, iter, cb, crashed, hist_vars, rq_vars, tr_vars>>

\* The same dispatch in three steps: the lock_guard takes the mutex when it is
\* free ...
on_uv_requests_accept_async_lock ==
    /\ ~crashed
    /\ io_pc = "idle"
    /\ async_pending
    /\ "async" \notin closing \cup m_closed
    /\ m_pending_requests_lock = "none"
    /\ async_pending' = FALSE
    /\ m_pending_requests_lock' = "io"
    /\ io_pc' = "swap"
    /\ UNCHANGED <<m_is_running, m_is_stopping, m_active_request_count,
                   m_pending_requests, m_grabbed_requests, m_timesup, m_closed,
                   clock, timesup_timer, closing, stop_flag, curl_vars, obj_vars,
                   pc, cur, dtor_pc, drain_idx, iter, cb, crashed, hist_vars, rq_vars, tr_vars>>

\* ... m_grabbed_requests.swap(m_pending_requests) ...
on_uv_requests_accept_async_swapping ==
    /\ ~crashed
    /\ io_pc = "swap"
    /\ m_grabbed_requests' = m_pending_requests
    /\ m_pending_requests' = m_grabbed_requests
    /\ io_pc' = "unlock"
    /\ UNCHANGED <<m_is_running, m_is_stopping, m_active_request_count,
                   m_pending_requests_lock, m_timesup, m_closed,
                   uv_vars, curl_vars, obj_vars,
                   pc, cur, dtor_pc, drain_idx, iter, cb, crashed, hist_vars, rq_vars, tr_vars>>

\* ... and the guard's block ends: the mutex is released before the loop over
\* m_grabbed_requests starts.
on_uv_requests_accept_async_unlock ==
    /\ ~crashed
    /\ io_pc = "unlock"
    /\ m_pending_requests_lock' = "none"
    /\ io_pc' = "drain"
    /\ drain_idx' = 1
    /\ UNCHANGED <<m_is_running, m_is_stopping, m_active_request_count,
                   m_pending_requests, m_grabbed_requests, m_timesup, m_closed,
                   uv_vars, curl_vars, obj_vars,
                   pc, cur, dtor_pc, iter, cb, crashed, hist_vars, rq_vars, tr_vars>>

\* One round of the loop over m_grabbed_requests: addTimesup, then
\* curl_multi_add_handle, which accepts the handle (ok) or rejects it. Accepted:
\* the executor is released to the transport and checkActions() starts with a
\* run of curl_multi_socket_action that reports done. Rejected: the executor is
\* completed at once with CURLE_SEND_ERROR.
on_uv_requests_accept_async_step(ok, done) ==
    /\ ~crashed
    /\ io_pc = "drain"
    /\ drain_idx <= Len(m_grabbed_requests)
    /\ LET e == m_grabbed_requests[drain_idx]
           added == addTimesup(m_timesup, timesup_timer, executors, e, uv_now)
           exs == [executors EXCEPT ![e].m_timesup_iterator = added.has]
       IN  /\ add_log' = Append(add_log, e)
           /\ IF ok
              THEN /\ multi' = multi \cup {e}
                   /\ done \in Completions((multi \cup {e}) \ Reported)
                   /\ msgs' = msgs \o done
                   /\ executors' = exs
                   /\ m_timesup' = added.ts
                   /\ timesup_timer' = added.timer
                   /\ io_pc' = "check"
                   /\ UNCHANGED <<m_active_request_count, drain_idx, deliveries, cb>>
              ELSE /\ done = <<>>
                   /\ completeRequestNormal(e, convert("CURLE_SEND_ERROR"), "reject",
                                            exs, added.ts, added.timer)
                   /\ UNCHANGED <<multi, msgs>>
    /\ UNCHANGED <<m_is_running, m_is_stopping, m_pending_requests,
                   m_pending_requests_lock, m_grabbed_requests, m_closed,
                   clock, async_pending, closing, stop_flag,
                   requests, pc, cur, dtor_pc, iter, crashed, inflight_at_stop, rq_vars, tr_vars>>

\* A drain that goes on with whatever was pushed meanwhile, until the pending
\* queue is empty.
on_uv_requests_accept_async_end_until_empty ==
    /\ ~crashed
    /\ io_pc = "drain"
    /\ drain_idx > Len(m_grabbed_requests)
    /\ m_pending_requests_lock = "none"
    /\ m_grabbed_requests' = m_pending_requests
    /\ m_pending_requests' = <<>>
    /\ io_pc' = IF m_pending_requests = <<>> THEN "idle" ELSE "drain"
    /\ drain_idx' = IF m_pending_requests = <<>> THEN 0 ELSE 1
    /\ UNCHANGED <<m_is_running, m_is_stopping, m_active_request_count,
                   m_pending_requests_lock, m_timesup, m_closed,
                   uv_vars, curl_vars, obj_vars, pc, cur, dtor_pc, iter, cb, crashed,
                   hist_vars, rq_vars, tr_vars>>

\* The loop is over: m_grabbed_requests.clear() and back into uv_run.
on_uv_requests_accept_async_end ==
    /\ ~crashed
    /\ io_pc = "drain"
    /\ drain_idx > Len(m_grabbed_requests)
    /\ m_grabbed_requests' = <<>>
    /\ io_pc' = "idle"
    /\ drain_idx' = 0
    /\ UNCHANGED <<m_is_running, m_is_stopping, m_active_request_count,
                   m_pending_requests, m_pending_requests_lock, m_timesup, m_closed,
                   uv_vars, curl_vars, obj_vars, pc, cur, dtor_pc, iter, cb, crashed,
                   hist_vars, rq_vars, tr_vars>>

\* on_uv_curl_perform_callback: a polled socket is ready, checkActions(socket,
\* action) starts with a run of curl_multi_socket_action that reports done.
\* (A run that finishes no transfer changes nothing modelled here and is left
\* out as a stuttering step.)
on_uv_curl_perform_callback(done) ==
    /\ ~crashed
    /\ io_pc = "idle"
    /\ multi # {}
    /\ done \in Completions(multi \ Reported)
    /\ done # <<>>
    /\ msgs' = msgs \o done
    /\ io_pc' = "check"
    /\ UNCHANGED <<loop_vars, clock, async_pending, timesup_timer, closing, stop_flag,
                   multi, obj_vars, pc, cur, dtor_pc, drain_idx, iter, cb, crashed,
                   hist_vars, rq_vars, tr_vars>>

\* EventLoop::checkActions, one round of the curl_multi_info_read loop: the
\* message's handle is removed from the multi handle and its executor completed.
checkActions_read ==
    /\ ~crashed
    /\ io_pc = "check"
    /\ msgs # <<>>
    /\ LET message == Head(msgs)
       IN  /\ msgs' = Tail(msgs)
           /\ multi' = multi \ {message.e}
           /\ completeRequestNormal(message.e, convert(message.code), "check",
                                    executors, m_timesup, timesup_timer)
    /\ UNCHANGED <<m_is_running, m_is_stopping, m_pending_requests,
                   m_pending_requests_lock, m_grabbed_requests, m_closed,
                   clock, async_pending, closing, stop_flag,
                   requests, pc, cur, dtor_pc, iter, crashed, add_log, inflight_at_stop,
                   rq_vars, tr_vars>>

\* curl_multi_info_read returns nullptr: checkActions returns, into the drain
\* loop or into uv_run.
checkActions_return ==
    /\ ~crashed
    /\ io_pc = "check"
    /\ msgs = <<>>
    /\ io_pc' = IF drain_idx > 0 THEN "drain" ELSE "idle"
    /\ drain_idx' = IF drain_idx > 0 THEN drain_idx + 1 ELSE 0
    /\ UNCHANGED <<loop_vars, uv_vars, curl_vars, obj_vars, pc, cur, dtor_pc, iter, cb,
                   crashed, hist_vars, rq_vars, tr_vars>>


\* A time's-up callback that is run from another thread, whatever the I/O
\* thread is doing.
on_uv_timesup_callback_fire_any_thread ==
    /\ ~crashed
    /\ io_pc \in {"idle", "handler"}
    /\ timesup_timer.armed
    /\ timesup_timer.due <= clock
    /\ timesup_timer' = [armed |-> FALSE, due |-> 0, slack |-> 0]
    /\ io_pc' = IF m_timesup = <<>> THEN io_pc ELSE "timesup"
    /\ iter' = IF m_timesup = <<>> THEN 0 ELSE 1
    /\ UNCHANGED <<loop_vars, clock, async_pending, closing, stop_flag, curl_vars,
                   obj_vars, pc, cur, dtor_pc, drain_idx, cb, crashed, hist_vars, rq_vars, tr_vars>>

\* on_uv_timesup_callback is dispatched: uv stops the one-shot timer and calls
\* the callback, which returns at once when the index is empty.
on_uv_timesup_callback_fire ==
    /\ ~crashed
    /\ io_pc = "idle"
    /\ timesup_timer.armed
    /\ timesup_timer.due <= clock
    /\ "timesup_timer" \notin closing \cup m_closed
    /\ timesup_timer' = [armed |-> FALSE, due |-> 0, slack |-> 0]
    /\ io_pc' = IF m_timesup = <<>> THEN "idle" ELSE "timesup"
    /\ iter' = IF m_timesup = <<>> THEN 0 ELSE 1
    /\ UNCHANGED <<loop_vars, clock, async_pending, closing, stop_flag, curl_vars,
                   obj_vars, pc, cur, dtor_pc, drain_idx, cb, crashed, hist_vars, rq_vars, tr_vars>>

\* completeRequestTimesup that neither sets m_on_complete_callback_called nor
\* gives the request away.
completeRequestTimesup_no_flag(e) ==
    IF ~executors[e].m_on_complete_callback_called /\ HandlerOf(executors, e) # 0
    THEN LET resp == setTimesupResponse(
                         [executors[e].m_response EXCEPT !.m_lift_status = "TIMESUP"],
                         requests[e].timesup)
         IN  /\ executors' = [executors EXCEPT ![e].m_response = resp]
             /\ deliveries' = Append(deliveries, Invocation(executors, e, resp, "timesup"))
             /\ io_pc' = "handler"
             /\ cb' = [e |-> e, from |-> "timesup"]
             /\ UNCHANGED <<m_timesup, timesup_timer, iter>>
    ELSE LET rm == removeTimesup(m_timesup, timesup_timer, executors, e, uv_now)
         IN  /\ m_timesup' = rm.ts
             /\ timesup_timer' = rm.timer
             /\ iter' = rm.next
             /\ executors' = [executors EXCEPT ![e].m_timesup_iterator = FALSE]
             /\ UNCHANGED <<deliveries, io_pc, cb>>

\* completeRequestTimesup that leaves the response's status as it was.
completeRequestTimesup_no_status(e) ==
    IF ~executors[e].m_on_complete_callback_called /\ HandlerOf(executors, e) # 0
    THEN LET resp == setTimesupResponse(executors[e].m_response, requests[e].timesup)
         IN  /\ executors' = [executors EXCEPT ![e].m_on_complete_callback_called = TRUE,
                                               ![e].m_response = resp,
                                               ![e].m_request_async = 0]
             /\ deliveries' = Append(deliveries, Invocation(executors, e, resp, "timesup"))
             /\ io_pc' = "handler"
             /\ cb' = [e |-> e, from |-> "timesup"]
             /\ UNCHANGED <<m_timesup, timesup_timer, iter>>
    ELSE LET rm == removeTimesup(m_timesup, timesup_timer, executors, e, uv_now)
         IN  /\ m_timesup' = rm.ts
             /\ timesup_timer' = rm.timer
             /\ iter' = rm.next
             /\ executors' = [executors EXCEPT ![e].m_timesup_iterator = FALSE]
             /\ UNCHANGED <<deliveries, io_pc, cb>>

\* EventLoop::completeRequestTimesup on the live executor e, followed (when no
\* handler is to be called) by the callback's removeTimesup.
completeRequestTimesup(e) ==
    IF ~executors[e].m_on_complete_callback_called /\ HandlerOf(executors, e) # 0
    THEN LET resp == setTimesupResponse(
                         [executors[e].m_response EXCEPT !.m_lift_status = "TIMESUP"],
                         requests[e].timesup)
         IN  /\ executors' = [executors EXCEPT ![e].m_on_complete_callback_called = TRUE,
                                               ![e].m_response = resp,
                                               ![e].m_request_async = 0]
             /\ deliveries' = Append(deliveries, Invocation(executors, e, resp, "timesup"))
             /\ io_pc' = "handler"
             /\ cb' = [e |-> e, from |-> "timesup"]
             /\ UNCHANGED <<m_timesup, timesup_timer, iter>>
    ELSE LET rm == removeTimesup(m_timesup, timesup_timer, executors, e, uv_now)
         IN  /\ m_timesup' = rm.ts
             /\ timesup_timer' = rm.timer
             /\ iter' = rm.next
             /\ executors' = [executors EXCEPT ![e].m_timesup_iterator = FALSE]
             /\ UNCHANGED <<deliveries, io_pc, cb>>

\* One round of the callback's loop on an entry that is due and whose executor
\* is alive.
on_uv_timesup_callback_step ==
    /\ ~crashed
    /\ io_pc = "timesup"
    /\ iter <= Len(m_timesup)
    /\ m_timesup[iter].tp <= uv_now
    /\ executors[m_timesup[iter].e].state = "alive"
    /\ completeRequestTimesup(m_timesup[iter].e)
    /\ UNCHANGED <<m_is_running, m_is_stopping, m_active_request_count,
                   m_pending_requests, m_pending_requests_lock, m_grabbed_requests,
                   m_closed, clock, async_pending, closing, stop_flag,
                   curl_vars, requests, pc, cur, dtor_pc, drain_idx, crashed, add_log,
                   inflight_at_stop, rq_vars, tr_vars>>

\* One round of the loop on an entry that is due and whose executor has been
\* destroyed: the callback reads and writes freed memory. Either the process
\* dies (outcome "crash"), or the freed memory still holds the executor's last
\* contents (outcome "stale"): no handler is found, and removeTimesup erases the
\* entry through the stale iterator.
on_uv_timesup_callback_dangling(outcome) ==
    /\ ~crashed
    /\ io_pc = "timesup"
    /\ iter <= Len(m_timesup)
    /\ m_timesup[iter].tp <= uv_now
    /\ executors[m_timesup[iter].e].state = "destroyed"
    /\ IF outcome = "crash"
       THEN /\ crashed' = TRUE
            /\ UNCHANGED <<m_timesup, timesup_timer, iter, executors>>
       ELSE LET e == m_timesup[iter].e
                rm == removeTimesup(m_timesup, timesup_timer, executors, e, uv_now)
            IN  /\ m_timesup' = rm.ts
                /\ timesup_timer' = rm.timer
                /\ iter' = rm.next
                /\ executors' = [executors EXCEPT ![e].m_timesup_iterator = FALSE]
                /\ UNCHANGED crashed
    /\ UNCHANGED <<m_is_running, m_is_stopping, m_active_request_count,
                   m_pending_requests, m_pending_requests_lock, m_grabbed_requests,
                   m_closed, clock, async_pending, closing, stop_flag,
                   curl_vars, requests, pc, cur, dtor_pc, io_pc, drain_idx, cb,
                   hist_vars, rq_vars, tr_vars>>

\* The loop ends at end() or at the first entry that has more time to wait.
on_uv_timesup_callback_return ==
    /\ ~crashed
    /\ io_pc = "timesup"
    /\ IF iter <= Len(m_timesup) THEN m_timesup[iter].tp > uv_now ELSE TRUE
    /\ io_pc' = "idle"
    /\ iter' = 0
    /\ UNCHANGED <<loop_vars, uv_vars, curl_vars, obj_vars, pc, cur, dtor_pc, drain_idx,
                   cb, crashed, hist_vars, rq_vars, tr_vars>>

\* ------------------------------------------------------------------ transport timer
\* EventLoop::checkActions(): checkActions(CURL_SOCKET_TIMEOUT, 0).
checkActions_timeout == [socket |-> "CURL_SOCKET_TIMEOUT", event_bitmask |-> 0]

\* curl_start_timeout that stops the timer only where it starts it again.
curl_start_timeout_no_stop(timeout_ms, done) ==
    /\ ~crashed
    /\ io_pc = "check"
    /\ IF timeout_ms > 0
       THEN /\ m_timeout_timer' = [armed |-> TRUE, due |-> uv_now + timeout_ms]
            /\ done = <<>>
            /\ timeout_call' = [op |-> "curl_start_timeout", timeout_ms |-> timeout_ms,
                                check |-> "none", seq |-> 1 - timeout_call.seq]
            /\ UNCHANGED msgs
       ELSE IF timeout_ms = 0
       THEN /\ done \in Completions(multi \ Reported)
            /\ msgs' = msgs \o done
            /\ timeout_call' = [op |-> "curl_start_timeout", timeout_ms |-> timeout_ms,
                                check |-> checkActions_timeout,
                                seq |-> 1 - timeout_call.seq]
            /\ UNCHANGED m_timeout_timer
       ELSE /\ done = <<>>
            /\ timeout_call' = [op |-> "curl_start_timeout", timeout_ms |-> timeout_ms,
                                check |-> "none", seq |-> 1 - timeout_call.seq]
            /\ UNCHANGED <<m_timeout_timer, msgs>>
    /\ UNCHANGED <<loop_vars, uv_vars, multi, obj_vars, thread_vars, hist_vars, rq_vars,
                   contexts, socketp, m_curl_context_ready, ctor_pc>>

\* curl_start_timeout, which the transport calls from inside
\* curl_multi_socket_action or curl_multi_remove_handle (the I/O thread is in
\* checkActions): the timer is stopped, then started for timeout_ms > 0; for
\* timeout_ms = 0 checkActions() runs nested, and what its run of
\* curl_multi_socket_action reports (done) joins the messages that are read in
\* the order of the queue.
curl_start_timeout(timeout_ms, done) ==
    /\ ~crashed
    /\ io_pc = "check"
    /\ IF timeout_ms > 0
       THEN /\ m_timeout_timer' = [armed |-> TRUE, due |-> uv_now + timeout_ms]
            /\ done = <<>>
            /\ timeout_call' = [op |-> "curl_start_timeout", timeout_ms |-> timeout_ms,
                                check |-> "none", seq |-> 1 - timeout_call.seq]
            /\ UNCHANGED msgs
       ELSE IF timeout_ms = 0
       THEN /\ m_timeout_timer' = [armed |-> FALSE, due |-> 0]
            /\ done \in Completions(multi \ Reported)
            /\ msgs' = msgs \o done
            /\ timeout_call' = [op |-> "curl_start_timeout", timeout_ms |-> timeout_ms,
                                check |-> checkActions_timeout,
                                seq |-> 1 - timeout_call.seq]
       ELSE /\ m_timeout_timer' = [armed |-> FALSE, due |-> 0]
            /\ done = <<>>
            /\ timeout_call' = [op |-> "curl_start_timeout", timeout_ms |-> timeout_ms,
                                check |-> "none", seq |-> 1 - timeout_call.seq]
            /\ UNCHANGED msgs
    /\ UNCHANGED <<loop_vars, uv_vars, multi, obj_vars, thread_vars, hist_vars, rq_vars,
                   contexts, socketp, m_curl_context_ready, ctor_pc>>

\* on_uv_timeout_callback: the one-shot transport-timeout timer is due, uv
\* dispatches it and checkActions() runs; its curl_multi_socket_action reports
\* done.
on_uv_timeout_callback(done) ==
    /\ ~crashed
    /\ io_pc = "idle"
    /\ m_timeout_timer.armed
    /\ m_timeout_timer.due <= clock
    /\ "timeout_timer" \notin closing \cup m_closed
    /\ m_timeout_timer' = [armed |-> FALSE, due |-> 0]
    /\ done \in Completions(multi \ Reported)
    /\ msgs' = msgs \o done
    /\ io_pc' = "check"
    /\ timeout_call' = [op |-> "on_uv_timeout_callback", timeout_ms |-> 0,
                        check |-> checkActions_timeout, seq |-> 1 - timeout_call.seq]
    /\ UNCHANGED <<loop_vars, uv_vars, multi, obj_vars, pc, cur, dtor_pc, drain_idx, iter,
                   cb, crashed, hist_vars, rq_vars, contexts, socketp,
                   m_curl_context_ready, ctor_pc>>

\* ------------------------------------------------------------------ poll contexts
\* The uv events uv_poll_start is called with for a poll action.
PollEvents(action) ==
    CASE action = "CURL_POLL_IN" -> "UV_READABLE"
      [] action = "CURL_POLL_OUT" -> "UV_WRITABLE"
      [] action = "CURL_POLL_INOUT" -> "UV_READABLE|UV_WRITABLE"
      [] OTHER -> "none"

\* std::make_unique<CurlContext>: an object that does not exist yet.
NewContext == CHOOSE c \in CtxIds :
                  /\ contexts[c].state = "none"
                  /\ \A d \in CtxIds : contexts[d].state = "none" => c <= d

\* A socket callback that takes a new socket's context from the contexts that
\* are closing when the ready list is empty.
curl_handle_socket_actions_reuse_closing(sock, action) ==
    /\ ~crashed
    /\ io_pc = "check"
    /\ IF action \in {"CURL_POLL_IN", "CURL_POLL_OUT", "CURL_POLL_INOUT"}
       THEN IF socketp[sock] # 0
            THEN /\ contexts' = [contexts EXCEPT ![socketp[sock]].events = PollEvents(action)]
                 /\ UNCHANGED <<socketp, m_curl_context_ready>>
            ELSE /\ \E c \in CtxIds : contexts[c].state \in {"none", "closing", "ready"}
                 /\ LET closed == {d \in CtxIds : contexts[d].state = "closing"}
                        c == IF m_curl_context_ready # <<>> THEN Head(m_curl_context_ready)
                             ELSE IF closed # {} THEN CHOOSE d \in closed : TRUE
                             ELSE NewContext
                    IN  /\ contexts' = [contexts EXCEPT ![c] =
                               [state |-> "bound", m_sock_fd |-> sock,
                                events |-> PollEvents(action)]]
                        /\ socketp' = [socketp EXCEPT ![sock] = c]
                 /\ m_curl_context_ready' = IF m_curl_context_ready = <<>> THEN <<>>
                                            ELSE Tail(m_curl_context_ready)
       ELSE IF action = "CURL_POLL_REMOVE" /\ socketp[sock] # 0
       THEN /\ contexts' = [contexts EXCEPT ![socketp[sock]].state = "closing",
                                            ![socketp[sock]].events = "none"]
            /\ socketp' = [socketp EXCEPT ![sock] = 0]
            /\ UNCHANGED m_curl_context_ready
       ELSE UNCHANGED <<contexts, socketp, m_curl_context_ready>>
    /\ UNCHANGED <<loop_vars, uv_vars, curl_vars, obj_vars, thread_vars, hist_vars, rq_vars,
                   m_timeout_timer, timeout_call, ctor_pc>>

\* curl_handle_socket_actions, which the transport calls from inside its own
\* calls (the I/O thread is in checkActions) with the pointer it was given by
\* curl_multi_assign for that socket. A new socket gets the front of
\* m_curl_context_ready, or a new CurlContext when that is empty; Init and
\* curl_multi_assign bind it. CURL_POLL_REMOVE calls Close (uv_poll_stop and
\* uv_close) and takes the pointer off the socket.
curl_handle_socket_actions(sock, action) ==
    /\ ~crashed
    /\ io_pc = "check"
    /\ IF action \in {"CURL_POLL_IN", "CURL_POLL_OUT", "CURL_POLL_INOUT"}
       THEN IF socketp[sock] # 0
            THEN /\ contexts' = [contexts EXCEPT ![socketp[sock]].events = PollEvents(action)]
                 /\ UNCHANGED <<socketp, m_curl_context_ready>>
            ELSE /\ m_curl_context_ready = <<>> =>
                        \E c \in CtxIds : contexts[c].state = "none"
                 /\ LET c == IF m_curl_context_ready = <<>> THEN NewContext
                             ELSE Head(m_curl_context_ready)
                    IN  /\ contexts' = [contexts EXCEPT ![c] =
                               [state |-> "bound", m_sock_fd |-> sock,
                                events |-> PollEvents(action)]]
                        /\ socketp' = [socketp EXCEPT ![sock] = c]
                 /\ m_curl_context_ready' = IF m_curl_context_ready = <<>> THEN <<>>
                                            ELSE Tail(m_curl_context_ready)
       ELSE IF action = "CURL_POLL_REMOVE" /\ socketp[sock] # 0
       THEN /\ contexts' = [contexts EXCEPT ![socketp[sock]].state = "closing",
                                            ![socketp[sock]].events = "none"]
            /\ socketp' = [socketp EXCEPT ![sock] = 0]
            /\ UNCHANGED m_curl_context_ready
       ELSE UNCHANGED <<contexts, socketp, m_curl_context_ready>>
    /\ UNCHANGED <<loop_vars, uv_vars, curl_vars, obj_vars, thread_vars, hist_vars, rq_vars,
                   m_timeout_timer, timeout_call, ctor_pc>>

\* CurlContext::on_close, which uv calls when the poll handle's close is
\* complete: the context joins m_curl_context_ready.
CurlContext_on_close(c) ==
    /\ ~crashed
    /\ io_pc = "idle"
    /\ contexts[c].state = "closing"
    /\ contexts' = [contexts EXCEPT ![c].state = "ready"]
    /\ m_curl_context_ready' = Append(m_curl_context_ready, c)
    /\ UNCHANGED <<loop_vars, uv_vars, curl_vars, obj_vars, thread_vars, hist_vars, rq_vars,
                   m_timeout_timer, timeout_call, socketp, ctor_pc>>

\* on_uv_curl_perform_callback dispatched for the poll handle of context c,
\* which is polling its socket.
on_uv_curl_perform_callback_context(c, done) ==
    /\ contexts[c].state = "bound"
    /\ contexts[c].events # "none"
    /\ on_uv_curl_perform_callback(done)

\* uv_close_callback for handle h, run by the loop on the I/O thread.
uv_close_callback(h) ==
    /\ ~crashed
    /\ io_pc = "idle"
    /\ h \in closing
    /\ closing' = closing \ {h}
    /\ m_closed' = m_closed \cup {h}
    /\ UNCHANGED <<m_is_running, m_is_stopping, m_active_request_count,
                   m_pending_requests, m_pending_requests_lock, m_grabbed_requests,
                   m_timesup, clock, async_pending, timesup_timer, stop_flag,
                   curl_vars, obj_vars, thread_vars, hist_vars, rq_vars, tr_vars>>

\* EventLoop::run after uv_run has returned because of uv_stop.
run_return ==
    /\ ~crashed
    /\ io_pc = "idle"
    /\ stop_flag
    /\ m_is_running' = FALSE
    /\ io_pc' = "exited"
    /\ UNCHANGED <<m_is_stopping, m_active_request_count, m_pending_requests,
                   m_pending_requests_lock, m_grabbed_requests, m_timesup, m_closed,
                   uv_vars, curl_vars, obj_vars, pc, cur, dtor_pc, drain_idx, iter, cb,
                   crashed, hist_vars, rq_vars, tr_vars>>

\* ------------------------------------------------------------------ EventLoop()
\* The constructor's body up to m_background_thread = std::thread{...}: the
\* handles are initialised and the I/O thread is created.
Constructor_thread ==
    /\ ~crashed
    /\ ctor_pc = "init"
    /\ ctor_pc' = "wait"
    /\ io_pc' = "starting"
    /\ UNCHANGED <<loop_vars, uv_vars, curl_vars, obj_vars, pc, cur, dtor_pc, drain_idx,
                   iter, cb, crashed, hist_vars, rq_vars, m_timeout_timer, timeout_call,
                   contexts, socketp, m_curl_context_ready>>

\* EventLoop::run on the new thread: m_is_running = true, then uv_run.
run_start ==
    /\ ~crashed
    /\ io_pc = "starting"
    /\ m_is_running' = TRUE
    /\ io_pc' = "idle"
    /\ UNCHANGED <<m_is_stopping, m_active_request_count, m_pending_requests,
                   m_pending_requests_lock, m_grabbed_requests, m_timesup, m_closed,
                   uv_vars, curl_vars, obj_vars, pc, cur, dtor_pc, drain_idx, iter, cb,
                   crashed, hist_vars, rq_vars, tr_vars>>

\* A constructor that returns without looking at IsRunning().
Constructor_wait_no_check ==
    /\ ~crashed
    /\ ctor_pc = "wait"
    /\ ctor_pc' = "done"
    /\ UNCHANGED <<loop_vars, uv_vars, curl_vars, obj_vars, thread_vars, hist_vars, rq_vars,
                   m_timeout_timer, timeout_call, contexts, socketp, m_curl_context_ready>>

\* while (!IsRunning()) sleep: the loop is left on a read of true and the
\* constructor returns.
Constructor_wait ==
    /\ ~crashed
    /\ ctor_pc = "wait"
    /\ m_is_running
    /\ ctor_pc' = "done"
    /\ UNCHANGED <<loop_vars, uv_vars, curl_vars, obj_vars, thread_vars, hist_vars, rq_vars,
                   m_timeout_timer, timeout_call, contexts, socketp, m_curl_context_ready>>

\* ------------------------------------------------------------------ ~EventLoop
\* m_is_stopping = true.
Destructor_stopping ==
    /\ ~crashed
    /\ dtor_pc = "none"
    /\ m_is_stopping' = TRUE
    /\ dtor_pc' = "wait"
    /\ inflight_at_stop' = {e \in ReqIds : executors[e].state = "alive"}
    /\ UNCHANGED <<m_is_running, m_active_request_count, m_pending_requests,
                   m_pending_requests_lock, m_grabbed_requests, m_timesup, m_closed,
                   uv_vars, curl_vars, obj_vars, pc, cur, io_pc, drain_idx, iter, cb,
                   crashed, deliveries, add_log, rq_vars, tr_vars>>

\* A destructor that does not wait for the count.
Destructor_wait_no_count ==
    /\ ~crashed
    /\ dtor_pc = "wait"
    /\ dtor_pc' = "close"
    /\ UNCHANGED <<loop_vars, uv_vars, curl_vars, obj_vars, pc, cur, io_pc, drain_idx,
                   iter, cb, crashed, hist_vars, rq_vars, tr_vars>>

\* while (ActiveRequestCount() > 0) sleep: the loop is left on a read of 0.
Destructor_wait ==
    /\ ~crashed
    /\ dtor_pc = "wait"
    /\ m_active_request_count = 0
    /\ dtor_pc' = "close"
    /\ UNCHANGED <<loop_vars, uv_vars, curl_vars, obj_vars, pc, cur, io_pc, drain_idx,
                   iter, cb, crashed, hist_vars, rq_vars, tr_vars>>

\* Both timers are stopped, the three handles are given to uv_close, the loop
\* is woken and told to stop.
Destructor_close ==
    /\ ~crashed
    /\ dtor_pc = "close"
    /\ m_timeout_timer' = [armed |-> FALSE, due |-> 0]
    /\ timesup_timer' = [armed |-> FALSE, due |-> 0, slack |-> 0]
    /\ closing' = Handles
    /\ async_pending' = TRUE
    /\ stop_flag' = TRUE
    /\ dtor_pc' = "wait_closed"
    /\ UNCHANGED <<loop_vars, clock, curl_vars, obj_vars, pc, cur, io_pc,
                   drain_idx, iter, cb, crashed, hist_vars, rq_vars, timeout_call,
                   contexts, socketp, m_curl_context_ready, ctor_pc>>

\* while (!m_timeout_timer_closed && !m_timesup_timer_closed && !m_async_closed) sleep.
Destructor_wait_closed ==
    /\ ~crashed
    /\ dtor_pc = "wait_closed"
    /\ ~("timeout_timer" \notin m_closed /\ "timesup_timer" \notin m_closed
                                         /\ "async" \notin m_closed)
    /\ dtor_pc' = "join"
    /\ UNCHANGED <<loop_vars, uv_vars, curl_vars, obj_vars, pc, cur, io_pc, drain_idx,
                   iter, cb, crashed, hist_vars, rq_vars, tr_vars>>

\* m_background_thread.join(), then the transport handles are released and the
\* destructor returns.
Destructor_join ==
    /\ ~crashed
    /\ dtor_pc = "join"
    /\ io_pc = "exited"
    /\ dtor_pc' = "done"
    /\ UNCHANGED <<loop_vars, uv_vars, curl_vars, obj_vars, pc, cur, io_pc, drain_idx,
                   iter, cb, crashed, hist_vars, rq_vars, tr_vars>>

\* ------------------------------------------------------------------ time
\* A millisecond passes while the I/O thread waits in uv_run (or has left it).
\* An armed timer's callback is dispatched before the clock moves more than the
\* timer's slack past its due time.
Tick(limit) ==
    /\ ~crashed
    /\ clock < limit
    /\ io_pc \in {"idle", "exited"}
    /\ ~(timesup_timer.armed /\ timesup_timer.due + timesup_timer.slack <= clock)
    /\ clock' = clock + 1
    /\ UNCHANGED <<loop_vars, async_pending, timesup_timer, closing,
                   stop_flag, curl_vars, obj_vars, thread_vars, hist_vars, rq_vars, tr_vars>>

\* ------------------------------------------------------------------ Request
\* Data without the check of m_mime_fields_set.
Data_no_check(data) ==
    /\ rq' = [rq EXCEPT !.m_request_data_set = TRUE,
                        !.m_request_data = data,
                        !.m_method = "POST"]
    /\ rq_last' = [rq_last EXCEPT !.op = "Data", !.threw = FALSE, !.data_ok = TRUE,
                                  !.data = data]

\* A Data that forces the method to POST before it checks m_mime_fields_set.
Data_method_first(data) ==
    IF rq.m_mime_fields_set
    THEN /\ rq_last' = [rq_last EXCEPT !.op = "Data", !.threw = TRUE, !.data = data]
         /\ rq' = [rq EXCEPT !.m_method = "POST"]
    ELSE /\ rq' = [rq EXCEPT !.m_request_data_set = TRUE,
                             !.m_request_data = data,
                             !.m_method = "POST"]
         /\ rq_last' = [rq_last EXCEPT !.op = "Data", !.threw = FALSE, !.data_ok = TRUE,
                                       !.data = data]

\* Request::Data.
Data(data) ==
    IF rq.m_mime_fields_set
    THEN /\ rq_last' = [rq_last EXCEPT !.op = "Data", !.threw = TRUE, !.data = data]
         /\ UNCHANGED rq
    ELSE /\ rq' = [rq EXCEPT !.m_request_data_set = TRUE,
                             !.m_request_data = data,
                             !.m_method = "POST"]
         /\ rq_last' = [rq_last EXCEPT !.op = "Data", !.threw = FALSE, !.data_ok = TRUE,
                                       !.data = data]

\* Request::MimeField.
MimeField(mime_field) ==
    IF rq.m_request_data_set
    THEN /\ rq_last' = [rq_last EXCEPT !.op = "MimeField", !.threw = TRUE]
         /\ UNCHANGED rq
    ELSE /\ rq' = [rq EXCEPT !.m_mime_fields_set = TRUE,
                             !.m_mime_fields = Append(rq.m_mime_fields, mime_field)]
         /\ rq_last' = [rq_last EXCEPT !.op = "MimeField", !.threw = FALSE,
                                       !.mime_ok = TRUE]

\* Request::Method(method).
Method(method) ==
    /\ rq' = [rq EXCEPT !.m_method = method]
    /\ rq_last' = [rq_last EXCEPT !.op = "Method", !.threw = FALSE]

\* Request::FollowRedirects(follow_redirects, max_redirects).
FollowRedirects(follow_redirects, max_redirects) ==
    /\ rq' = IF follow_redirects
             THEN [rq EXCEPT !.m_follow_redirects = TRUE,
                             !.m_max_redirects = IF max_redirects >= -1
                                                 THEN max_redirects ELSE -1]
             ELSE [rq EXCEPT !.m_follow_redirects = FALSE]
    /\ rq_last' = [rq_last EXCEPT !.op = "FollowRedirects", !.threw = FALSE,
                                  !.follow_redirects = follow_redirects,
                                  !.max_redirects = max_redirects]

\* Executor::perform on a borrowed Request: the transfer runs to its completion
\* code, the Request is read and left as it is, the Response carries the
\* converted code.
Executor_perform(request, curl_code) ==
    [request |-> request, m_lift_status |-> convert(curl_code)]

\* A Perform that gives the Request away to its Executor.
Perform_moved(curl_code) ==
    /\ rq' = RqInit
    /\ rq_last' = [rq_last EXCEPT !.op = "Perform", !.threw = FALSE,
                                  !.performs = rq_last.performs + 1,
                                  !.response = Executor_perform(rq, curl_code).m_lift_status]

\* Request::Perform: Executor executor { this, share }; return executor.perform().
Perform(curl_code) ==
    LET out == Executor_perform(rq, curl_code)
    IN  /\ rq' = out.request
        /\ rq_last' = [rq_last EXCEPT !.op = "Perform", !.threw = FALSE,
                                      !.performs = rq_last.performs + 1,
                                      !.response = out.m_lift_status]

\* A caller building one Request and performing it: any call, in any order.
NextRequest ==
    \/ \E curl_code \in TransportCodes :
           /\ rq_last.performs < MaxPerform
           /\ Perform(curl_code)
           /\ UNCHANGED <<loop_vars, uv_vars, curl_vars, obj_vars, thread_vars, hist_vars, tr_vars>>
    \/ \E data \in DataValues :
           Data(data) /\ UNCHANGED <<loop_vars, uv_vars, curl_vars, obj_vars,
                                     thread_vars, hist_vars, tr_vars>>
    \/ \E mime_field \in MimeValues :
           /\ Len(rq.m_mime_fields) < MaxMime
           /\ MimeField(mime_field)
           /\ UNCHANGED <<loop_vars, uv_vars, curl_vars, obj_vars, thread_vars, hist_vars, tr_vars>>
    \/ \E method \in Methods :
           Method(method) /\ UNCHANGED <<loop_vars, uv_vars, curl_vars, obj_vars,
                                         thread_vars, hist_vars, tr_vars>>
    \/ \E follow_redirects \in BOOLEAN, max_redirects \in (-MaxRedirect - 1)..MaxRedirect :
           /\ FollowRedirects(follow_redirects, max_redirects)
           /\ UNCHANGED <<loop_vars, uv_vars, curl_vars, obj_vars, thread_vars, hist_vars, tr_vars>>

SpecRequest == Init /\ [][NextRequest]_vars

\* ------------------------------------------------------------------ Spec
\* The steps of the producer threads T.
Producer(T) ==
    \/ \E t \in T, h \in 0..MaxReq, b \in Budgets : StartRequest_check(t, h, b)
    \/ \E t \in T : StartRequest_count(t)
    \/ \E t \in T : StartRequest_push(t)
    \/ \E t \in T : StartRequest_send(t)

\* The callbacks uv_run dispatches on the I/O thread, apart from the start of
\* the drain.
IoCallbacks ==
    \/ \E ok \in BOOLEAN, done \in Completions(ReqIds) :
           on_uv_requests_accept_async_step(ok, done)
    \/ on_uv_requests_accept_async_end
    \/ \E done \in Completions(ReqIds) : on_uv_curl_perform_callback(done)
    \/ checkActions_read
    \/ checkActions_return
    \/ HandlerReturn
    \/ on_uv_timesup_callback_fire
    \/ on_uv_timesup_callback_step
    \/ \E outcome \in {"crash", "stale"} : on_uv_timesup_callback_dangling(outcome)
    \/ on_uv_timesup_callback_return

\* The I/O thread's steps while the loop runs.
IoThread ==
    \/ on_uv_requests_accept_async_swap
    \/ IoCallbacks

\* The same threads with the mutex's critical sections taken step by step, and
\* with handlers that call StartRequest.
ProducerLocked(T) ==
    \/ \E t \in T, h \in 0..MaxReq, b \in Budgets : StartRequest_check(t, h, b)
    \/ \E t \in T : StartRequest_count(t)
    \/ \E t \in T : StartRequest_lock(t)
    \/ \E t \in T : StartRequest_emplace(t)
    \/ \E t \in T : StartRequest_unlock(t)
    \/ \E t \in T : StartRequest_send(t)

IoThreadLocked ==
    \/ on_uv_requests_accept_async_lock
    \/ on_uv_requests_accept_async_swapping
    \/ on_uv_requests_accept_async_unlock
    \/ IoCallbacks

\* The thread that destroys the EventLoop, and the I/O thread's part in it.
Shutdown ==
    \/ Destructor_stopping
    \/ Destructor_wait
    \/ Destructor_close
    \/ Destructor_wait_closed
    \/ Destructor_join
    \/ \E h \in Handles : uv_close_callback(h)
    \/ run_return

\* The running loop: producers, the I/O thread, Stop() and the clock.
Next ==
    \/ Producer(Producers)
    \/ IoThread
    \/ Stop
    \/ Tick(MaxTime)

Spec == Init /\ [][Next]_vars

\* The loop and its destruction, with one producer submitting meanwhile.
NextShutdown ==
    \/ Producer({"p1"})
    \/ IoThread
    \/ Shutdown
    \/ Tick(MaxTime)

SpecShutdown == Init /\ [][NextShutdown]_vars

\* The running loop with the mutex step by step: one producer, and handlers
\* that submit from the I/O thread.
NextLock ==
    \/ ProducerLocked({"p1", "io"})
    \/ IoThreadLocked
    \/ Tick(LockTime)

SpecLock == Init /\ [][NextLock]_vars

\* The running loop over a longer time, with one producer.
NextTime ==
    \/ Producer({"p1"})
    \/ IoThread
    \/ Tick(LongTime)

SpecTime == Init /\ [][NextTime]_vars

\* The transport's timer requests and the transport-timeout timer.
TransportTimer ==
    \/ \E timeout_ms \in TimeoutValues, done \in Completions(ReqIds) :
           curl_start_timeout(timeout_ms, done)
    \/ \E done \in Completions(ReqIds) : on_uv_timeout_callback(done)

\* The running loop with a transport that asks for timeouts: one producer.
NextTimeout ==
    \/ Producer({"p1"})
    \/ IoThread
    \/ TransportTimer
    \/ Tick(LockTime)

SpecTimeout == Init /\ [][NextTimeout]_vars

\* The running loop with the transport's sockets: one producer whose requests
\* have no time's-up budget, the drain, the socket callbacks of the transport
\* and the poll and close callbacks of uv.
NextPoll ==
    \/ \E h \in 0..MaxReq : StartRequest_check("p1", h, 0)
    \/ StartRequest_count("p1")
    \/ StartRequest_push("p1")
    \/ StartRequest_send("p1")
    \/ on_uv_requests_accept_async_swap
    \/ \E ok \in BOOLEAN, done \in Completions(ReqIds) :
           on_uv_requests_accept_async_step(ok, done)
    \/ on_uv_requests_accept_async_end
    \/ \E c \in CtxIds, done \in Completions(ReqIds) :
           on_uv_curl_perform_callback_context(c, done)
    \/ checkActions_read
    \/ checkActions_return
    \/ HandlerReturn
    \/ \E sock \in Sockets, action \in PollActions : curl_handle_socket_actions(sock, action)
    \/ \E c \in CtxIds : CurlContext_on_close(c)

SpecPoll == Init /\ [][NextPoll]_vars

\* The loop from the entry of its constructor: the constructing thread, the
\* I/O thread it creates, and one producer that submits once the constructor
\* has returned. Every thread keeps running.
NextConstruct ==
    \/ Constructor_thread
    \/ run_start
    \/ Constructor_wait
    \/ Producer({"p1"})
    \/ IoThread
    \/ Tick(LockTime)

SpecConstruct ==
    /\ InitConstruct
    /\ [][NextConstruct]_vars
    /\ WF_vars(Constructor_thread \/ Constructor_wait)
    /\ WF_vars(run_start \/ IoThread)
    /\ WF_vars(StartRequest_count("p1") \/ StartRequest_push("p1") \/ StartRequest_send("p1"))

\* The same, with an I/O thread that keeps running: uv_run goes on dispatching
\* the callbacks that are ready.
SpecTimeFair == SpecTime /\ WF_vars(IoThread)


\* ------------------------------------------------------------------ properties
\* The on-complete invocations made with executor e's response.
InvocationsOf(e) == {k \in 1..Len(deliveries) : deliveries[k].resp_of = e}

C2_DestructorDeliversAccepted ==
    dtor_pc = "done" =>
        \A r \in ReqIds :
            requests[r].result = "true" =>
                /\ requests[r].handler # 0 => InvocationsOf(r) # {}
                /\ \A k \in 1..Len(m_pending_requests) : m_pending_requests[k] # r
                /\ r \notin multi

\* C3: a StartRequest call made once the stopping flag is set returns false, no
\* executor is made for its request and its callback is never delivered; the
\* flag, once set, is never cleared.
C3_StoppedRejects ==
    /\ [](\A r \in ReqIds :
              requests[r].late =>
                  /\ requests[r].result = "false"
                  /\ executors[r].state = "none"
                  /\ InvocationsOf(r) = {}
                  /\ \A k \in 1..Len(m_pending_requests) : m_pending_requests[k] # r)
    /\ [][m_is_stopping => m_is_stopping']_vars

\* C3's case: StartRequest was called after Stop() and returned false, while a
\* request accepted before Stop() was delivered.
C3_Witness ==
    /\ m_is_stopping
    /\ \E r \in ReqIds : requests[r].late /\ requests[r].result = "false"
    /\ \E r \in ReqIds : ~requests[r].late /\ InvocationsOf(r) # {}

C5_TerminalStatus ==
    \A k \in 1..Len(deliveries) :
        /\ deliveries[k].status \in TerminalStatus
        /\ deliveries[k].path = "timesup" =>
               /\ deliveries[k].status = "TIMESUP"
               /\ deliveries[k].total_time = requests[deliveries[k].resp_of].timesup
        /\ deliveries[k].path = "check" =>
               deliveries[k].status \in {convert(code) : code \in TransportCodes}
        /\ deliveries[k].path = "reject" =>
               deliveries[k].status = convert("CURLE_SEND_ERROR")

\* C5's case: deliveries have been made on the time's-up path and on the
\* transport path.
C5_Witness ==
    /\ \E k \in 1..Len(deliveries) : deliveries[k].path = "timesup"
    /\ \E k \in 1..Len(deliveries) :
           deliveries[k].path = "check" /\ deliveries[k].status = "TIMEOUT"

\* C6: a Request never holds both a raw body and MIME fields: once Data() has
\* returned normally every MimeField() call throws and leaves the Request as it
\* was, and the other way round.
C6_BodyXorMime ==
    /\ ~(rq.m_request_data_set /\ rq.m_mime_fields_set)
    /\ ~(rq_last.data_ok /\ rq_last.mime_ok)
    /\ rq_last.data_ok = rq.m_request_data_set
    /\ rq_last.mime_ok = rq.m_mime_fields_set
    /\ (rq_last.op = "MimeField" /\ rq_last.data_ok) => rq_last.threw
    /\ (rq_last.op = "Data" /\ rq_last.mime_ok) => rq_last.threw
    /\ rq.m_request_data # "" => rq.m_mime_fields = <<>>
    /\ rq.m_mime_fields # <<>> => rq.m_request_data = ""

\* C6's case: MimeField() has just thrown on a Request that holds a raw body.
C6_Witness ==
    /\ rq_last.op = "MimeField"
    /\ rq_last.threw
    /\ rq.m_request_data = "x"
    /\ rq.m_mime_fields = <<>>

C9_ShutdownWaits ==
    /\ [](dtor_pc \notin {"none", "wait"} =>
              \A r \in inflight_at_stop :
                  /\ executors[r].state = "destroyed"
                  /\ r \notin multi
                  /\ requests[r].handler # 0 =>
                         /\ Cardinality(InvocationsOf(r)) = 1
                         /\ \A k \in InvocationsOf(r) :
                                \/ deliveries[k].path = "timesup"
                                       /\ deliveries[k].status = "TIMESUP"
                                \/ deliveries[k].path \in {"check", "reject"})
    /\ [][(dtor_pc = "wait" /\ dtor_pc' # "wait") => m_active_request_count = 0]_vars

\* C9's case: the destructor has returned, and a request that was in flight
\* when it began was completed by the transport meanwhile.
C9_Witness ==
    /\ dtor_pc = "done"
    /\ \E r \in inflight_at_stop :
           \E k \in InvocationsOf(r) : deliveries[k].path = "check"

\* C10: every on-complete invocation calls the handler of the request it
\* delivers and is handed that request and the response of that request's
\* executor, never those of another request in flight.
C10_Matched ==
    \A k \in 1..Len(deliveries) :
        /\ deliveries[k].request \in ReqIds
        /\ deliveries[k].handler = requests[deliveries[k].request].handler
        /\ deliveries[k].handler # 0
        /\ deliveries[k].resp_of = deliveries[k].request

\* C10's case: two requests with different handlers were in flight together
\* and were delivered in the order opposite to their submission.
C10_Witness ==
    /\ Len(deliveries) = 2
    /\ deliveries[1].request = 2
    /\ deliveries[2].request = 1
    /\ deliveries[1].handler # deliveries[2].handler

\* The elements of a sequence.
Range(s) == {s[k] : k \in 1..Len(s)}

\* C11: the submission mutex is held only around the push in StartRequest and
\* around the swap in the drain: a thread that holds it is at one of those two
\* places, never in Executor::make / prepare, in the loop over the scratch
\* queue, in checkActions, in the time's-up callback or about to call a handler.
C11_MutexOnlyAroundQueue ==
    /\ m_pending_requests_lock \in {"none"} \cup Callers
    /\ \A t \in Producers :
           m_pending_requests_lock = t => pc[t] \in {"emplace", "unlock"}
    /\ m_pending_requests_lock = "io" =>
           \/ io_pc \in {"swap", "unlock"} /\ pc["io"] = "idle"
           \/ io_pc = "handler" /\ pc["io"] \in {"emplace", "unlock"}
    /\ \A t \in Callers :
           pc[t] \in {"emplace", "unlock"} => m_pending_requests_lock = t
    /\ io_pc \in {"swap", "unlock"} => m_pending_requests_lock = "io"

\* C11's case: the drain holds the mutex for its swap while a producer that
\* has prepared its executor waits for it.
C11_Witness ==
    /\ m_pending_requests_lock = "io"
    /\ io_pc = "swap"
    /\ pc["p1"] = "push"

\* C12: a handler that calls StartRequest on its own loop never waits for a
\* mutex its own thread holds; the call is accepted; the request enters the
\* scratch queue only by the swap at the start of a later drain pass, never
\* while the pass, checkActions call or callback that runs the handler is going on.
C12_ReentrantStartRequest ==
    /\ [](/\ ~(pc["io"] = "push" /\ m_pending_requests_lock = "io")
          /\ pc["io"] # "idle" => io_pc = "handler"
          /\ \A r \in ReqIds :
                 requests[r].by = "io" =>
                     /\ requests[r].result \in {"started", "true"}
                     /\ r \in Range(m_grabbed_requests) \cup Range(add_log)
                            => requests[r].result = "true")
    /\ [][\A r \in ReqIds :
              (/\ requests'[r].by = "io"
               /\ r \in Range(m_grabbed_requests')
               /\ r \notin Range(m_grabbed_requests))
                  => io_pc = "swap" /\ pc["io"] = "idle"]_vars

\* C12's case: a request submitted by a handler has been drained by a later
\* pass and delivered.
C12_Witness ==
    \E r \in ReqIds :
        /\ requests[r].by = "io"
        /\ r \in Range(add_log)
        /\ InvocationsOf(r) # {}


\* The whole batch of MaxReq requests has been accepted, and the transport has
\* reported the completion of each of them.
BatchCompleted ==
    /\ \A t \in Callers : pc[t] = "idle"
    /\ \A r \in ReqIds :
           /\ requests[r].result = "true"
           /\ r \in Reported \/ executors[r].state = "destroyed"

\* C13: the active request count is the number of executors made and not yet
\* destroyed, whether their requests carry a handler or not, so it is 0 once
\* every accepted request's completion has been processed; and once the
\* transport has reported the completion of each request of a batch, the loop
\* gets to report a count of 0.
C13_EventuallyEmpty ==
    /\ [](/\ m_active_request_count
                 = Cardinality({e \in ReqIds : executors[e].state = "alive"})
          /\ (/\ \A t \in Callers : pc[t] = "idle"
              /\ \A r \in ReqIds :
                     requests[r].result = "true" => executors[r].state = "destroyed")
                 => m_active_request_count = 0)
    /\ (BatchCompleted ~> m_active_request_count = 0)

\* C13's case: two requests, one of them without a handler, have been
\* completed by the transport and the count is back at 0.
C13_Witness ==
    /\ m_active_request_count = 0
    /\ \A r \in ReqIds : requests[r].result = "true" /\ executors[r].state = "destroyed"
    /\ \E r \in ReqIds : requests[r].handler = 0
    /\ \E r \in ReqIds : requests[r].handler # 0


EntriesOf(e) == {k \in 1..Len(m_timesup) : m_timesup[k].e = e}

\* C15: of the two completion paths of one executor the first delivers and the
\* other delivers nothing: after a time's-up delivery the transport completion
\* takes the handle out of the multi handle, counts the request down and
\* destroys the executor without a second call; after a transport completion
\* the executor has no timer entry left, so the time's-up callback never comes
\* to an entry of a completed executor.
C15_LoserOnlyCleansUp ==
    /\ \A e \in ReqIds : Cardinality(InvocationsOf(e)) <= 1
    /\ \A e \in ReqIds :
           executors[e].state = "destroyed" =>
               /\ e \notin multi
               /\ EntriesOf(e) = {}
    /\ ~(/\ io_pc = "timesup"
         /\ iter <= Len(m_timesup)
         /\ executors[m_timesup[iter].e].state = "destroyed")

\* C16: the timer index holds exactly one entry for each executor that is with
\* the transport, has a budget and has not been completed, and no other entry:
\* none for an executor without a budget, none twice, none for an executor that
\* was delivered or destroyed.
C16_TimerIndexExact ==
    /\ \A k \in 1..Len(m_timesup) :
           LET e == m_timesup[k].e
           IN  /\ executors[e].state = "alive"
               /\ requests[e].timesup > 0
               /\ EntriesOf(e) = {k}
               /\ (io_pc = "handler" /\ cb.e = e) \/ InvocationsOf(e) = {}
    /\ \A e \in multi :
           (requests[e].timesup > 0 /\ InvocationsOf(e) = {} /\ e \notin Reported)
               => Cardinality(EntriesOf(e)) = 1

\* C17: checkActions drops every completed executor from the timer index, also
\* one whose request has no handler: a destroyed executor never still holds its
\* iterator into the index.
C17_CompletionDropsEntry ==
    \A e \in ReqIds :
        executors[e].state = "destroyed" => ~executors[e].m_timesup_iterator


\* C18: the drain enters an executor with a budget in the timer index before it
\* hands it to the multi handle, and whenever a completion of an executor is
\* processed (its handle leaves the multi handle) the executor's entry is gone
\* afterwards, removed by that completion if it was still there.
C18_IndexedBeforeMulti ==
    /\ [][\A e \in multi' \ multi :
              requests[e].timesup > 0 =>
                  \E k \in 1..Len(m_timesup') :
                      /\ m_timesup'[k].e = e
                      /\ m_timesup'[k].tp = clock + requests[e].timesup]_vars
    /\ [][\A e \in multi \ multi' :
              \A k \in 1..Len(m_timesup') : m_timesup'[k].e # e]_vars

\* C19: a drain round in which curl_multi_add_handle rejects the executor
\* completes it there and then: it is not in the multi handle, its handler (if
\* any) is called once with the status converted from CURLE_SEND_ERROR, it has
\* no timer entry afterwards, it is counted down once, and the drain goes on
\* with the next executor.
C19_RejectedCompletedAtOnce ==
    /\ [][(add_log' # add_log /\ multi' = multi) =>
              LET e == add_log'[Len(add_log')]
              IN  /\ e \notin multi'
                  /\ \A k \in 1..Len(m_timesup') : m_timesup'[k].e # e
                  /\ IF requests[e].handler # 0
                     THEN /\ Len(deliveries') = Len(deliveries) + 1
                          /\ deliveries'[Len(deliveries')].resp_of = e
                          /\ deliveries'[Len(deliveries')].status
                                 = convert("CURLE_SEND_ERROR")
                          /\ io_pc' = "handler"
                          /\ cb' = [e |-> e, from |-> "reject"]
                     ELSE /\ deliveries' = deliveries
                          /\ executors'[e].state = "destroyed"
                          /\ m_active_request_count' = m_active_request_count - 1
                          /\ io_pc' = "drain"
                          /\ drain_idx' = drain_idx + 1]_vars
    /\ [][(io_pc = "handler" /\ cb.from = "reject" /\ io_pc' # "handler") =>
              /\ executors'[cb.e].state = "destroyed"
              /\ m_active_request_count' = m_active_request_count - 1
              /\ Cardinality(InvocationsOf(cb.e)) = 1
              /\ io_pc' = "drain"
              /\ drain_idx' = drain_idx + 1]_vars

\* C20: once the time's-up timer has fired, the callback goes through the
\* entries whose deadline is not after the loop's time, front to back, times
\* each of them out with a TIMESUP response whose total time is the budget and
\* removes it, and returns at the first entry with a later deadline, which it
\* leaves alone: it never comes to an entry whose executor is gone, and never
\* ends before the entries that are due have been timed out.
C20_TimesupCallback ==
    /\ [](/\ \A k \in 1..Len(deliveries) :
                 deliveries[k].path = "timesup" =>
                     /\ deliveries[k].status = "TIMESUP"
                     /\ deliveries[k].total_time = requests[deliveries[k].resp_of].timesup
          /\ \A i, j \in 1..Len(m_timesup) : i < j => m_timesup[i].tp <= m_timesup[j].tp
          /\ ~crashed
          /\ (io_pc = "timesup" /\ iter <= Len(m_timesup) /\ m_timesup[iter].tp <= uv_now)
                 => executors[m_timesup[iter].e].state = "alive")
    /\ [][(/\ (io_pc = "timesup" \/ (io_pc = "handler" /\ cb.from = "timesup"))
            /\ m_timesup' # m_timesup)
              => (/\ m_timesup[1].tp <= uv_now
                  /\ m_timesup' = Tail(m_timesup))]_vars
    /\ [][(io_pc = "timesup" /\ io_pc' = "idle")
              => (\A k \in 1..Len(m_timesup) : m_timesup[k].tp > uv_now)]_vars


\* C24: after FollowRedirects(true, max) the request follows redirects and
\* MaxRedirects() is max, or -1 for a negative max; after FollowRedirects(false)
\* it does not follow and the bound is cleared: MaxRedirects() no longer
\* reports what an earlier FollowRedirects(true, n) recorded.
C24_FollowRedirects ==
    rq_last.op = "FollowRedirects" =>
        IF rq_last.follow_redirects
        THEN /\ rq.m_follow_redirects
             /\ rq.m_max_redirects = IF rq_last.max_redirects < 0 THEN -1
                                     ELSE rq_last.max_redirects
        ELSE /\ ~rq.m_follow_redirects
             /\ rq.m_max_redirects = -1


\* C30: when the destructor has left its wait for the handles and goes on to
\* join the I/O thread, the close callbacks of all three handles (async,
\* transport-timeout timer, time's-up timer) have run: none is still closing.
C30_AllHandlesClosed ==
    dtor_pc \in {"join", "done"} =>
        /\ m_closed = Handles
        /\ closing = {}


\* ~EventLoop and the loop it destroys, with threads that keep running: the
\* I/O thread goes on dispatching what is ready (which includes the completions
\* the transport has for the transfers in flight), the producer finishes the
\* StartRequest it is in, and the destroying thread goes on whenever the
\* condition it waits for holds.
SpecShutdownFair ==
    /\ SpecShutdown
    /\ WF_vars(IoThread)
    /\ WF_vars(Shutdown)
    /\ WF_vars(\E t \in Producers : StartRequest_count(t) \/ StartRequest_push(t)
                                        \/ StartRequest_send(t))

\* C23: a destruction that has begun comes to its end: the destructor passes
\* the wait for the active count, the wait for the closes and the join, and
\* it goes through its stages in the order of the code.
C23_DestructorTerminates ==
    /\ [][/\ dtor_pc' # dtor_pc =>
                 <<dtor_pc, dtor_pc'>> \in {<<"none", "wait">>, <<"wait", "close">>,
                                            <<"close", "wait_closed">>,
                                            <<"wait_closed", "join">>, <<"join", "done">>}
          /\ (dtor_pc = "none" /\ dtor_pc' = "wait") => m_is_stopping'
          /\ (dtor_pc = "wait" /\ dtor_pc' = "close") => m_active_request_count = 0
          /\ (dtor_pc = "close" /\ dtor_pc' = "wait_closed") =>
                 /\ ~timesup_timer'.armed
                 /\ closing' = Handles
                 /\ async_pending'
                 /\ stop_flag'
          /\ (dtor_pc = "join" /\ dtor_pc' = "done") => io_pc = "exited"]_vars
    /\ (dtor_pc = "wait") ~> (dtor_pc = "done")


\* C21: every timer request of the transport leaves at most the timeout it
\* asked for pending: a positive timeout_ms arms the timer for now + timeout_ms
\* and runs nothing, 0 leaves the timer stopped and runs checkActions() at once,
\* a negative one leaves it stopped and runs nothing. The timer fires only when
\* armed and due, is then stopped (one shot), and its callback runs
\* checkActions(CURL_SOCKET_TIMEOUT, 0). Nothing else starts the timer.
C21_TransportTimeout ==
    /\ [](m_timeout_timer.armed =>
              /\ timeout_call.op = "curl_start_timeout"
              /\ timeout_call.timeout_ms > 0
              /\ m_timeout_timer.due <= clock + timeout_call.timeout_ms)
    /\ [][timeout_call' # timeout_call =>
              IF timeout_call'.op = "curl_start_timeout"
              THEN /\ io_pc' = io_pc
                   /\ IF timeout_call'.timeout_ms > 0
                      THEN /\ m_timeout_timer' =
                                  [armed |-> TRUE, due |-> uv_now + timeout_call'.timeout_ms]
                           /\ timeout_call'.check = "none"
                           /\ msgs' = msgs
                      ELSE IF timeout_call'.timeout_ms = 0
                      THEN /\ ~m_timeout_timer'.armed
                           /\ timeout_call'.check = checkActions_timeout
                      ELSE /\ ~m_timeout_timer'.armed
                           /\ timeout_call'.check = "none"
                           /\ msgs' = msgs
              ELSE /\ m_timeout_timer.armed
                   /\ m_timeout_timer.due <= clock
                   /\ ~m_timeout_timer'.armed
                   /\ timeout_call'.check = checkActions_timeout
                   /\ io_pc = "idle" /\ io_pc' = "check"]_vars
    /\ [][m_timeout_timer'.armed /\ m_timeout_timer' # m_timeout_timer
              => timeout_call' # timeout_call]_vars

\* The transport asked for a timeout, the timer ran out and its callback has
\* called checkActions().
C21_Witness ==
    /\ timeout_call.op = "on_uv_timeout_callback"
    /\ io_pc = "check"
    /\ ~m_timeout_timer.armed
    /\ clock >= 1


\* C22: every CurlContext that exists is bound to exactly one socket (the one
\* that carries its pointer, and only a bound context polls), or closing (on
\* no socket, not in the ready list), or once in the ready list. A context
\* enters the ready list only from closing, by its close callback; a socket
\* without a context is given a new one or the front of the ready list, never
\* one that is bound or closing; a socket that has a context keeps it until
\* CURL_POLL_REMOVE takes it off and closes it.
C22_PollContextStates ==
    /\ [](\A c \in CtxIds :
              LET socks == {sock \in Sockets : socketp[sock] = c}
                  slots == {k \in 1..Len(m_curl_context_ready) : m_curl_context_ready[k] = c}
              IN  /\ contexts[c].state \in {"none", "bound", "closing", "ready"}
                  /\ contexts[c].state = "bound" <=> Cardinality(socks) = 1
                  /\ Cardinality(socks) <= 1
                  /\ socks # {} => socks = {contexts[c].m_sock_fd}
                  /\ contexts[c].state = "ready" <=> Cardinality(slots) = 1
                  /\ Cardinality(slots) <= 1
                  /\ contexts[c].events # "none" => contexts[c].state = "bound")
    /\ [][\A c \in CtxIds :
              /\ (contexts'[c].state = "ready" /\ contexts[c].state # "ready")
                     => (contexts[c].state = "closing" /\ io_pc = "idle")
              /\ (contexts'[c].state = "closing" /\ contexts[c].state # "closing")
                     => contexts[c].state = "bound"
              /\ (contexts'[c].state = "bound" /\ contexts[c].state # "bound")
                     => \/ contexts[c].state = "none" /\ m_curl_context_ready = <<>>
                        \/ contexts[c].state = "ready" /\ c = Head(m_curl_context_ready)]_vars
    /\ [][\A sock \in Sockets :
              socketp[sock] # 0 =>
                  \/ socketp'[sock] = socketp[sock]
                  \/ socketp'[sock] = 0 /\ contexts'[socketp[sock]].state = "closing"]_vars

\* A second context was made for a socket while the first one was closing, and
\* the first one's close callback has put it on the ready list since.
C22_Witness ==
    /\ contexts[1].state = "ready"
    /\ m_curl_context_ready = <<1>>
    /\ contexts[2].state = "bound"
    /\ contexts[2].events # "none"


\* C26: when the constructor has returned the I/O thread has started and set
\* m_is_running, so IsRunning() is true from then on; the StartRequest that
\* follows is not refused, and the first request submitted is drained (it
\* reaches curl_multi_add_handle) in the end.
C26_ConstructedIsRunning ==
    /\ [](ctor_pc = "done" => (m_is_running /\ io_pc \notin {"unstarted", "starting"}))
    /\ [](\A r \in ReqIds : requests[r].used =>
              (ctor_pc = "done" /\ requests[r].result # "false"))
    /\ requests[1].used ~> (1 \in Range(add_log))

\* The constructor has returned, and the first request has been submitted at
\* once (the clock has not moved) and drained.
C26_Witness ==
    /\ ctor_pc = "done"
    /\ requests[1].result = "true"
    /\ requests[1].at = 0
    /\ 1 \in Range(add_log)


\* C25: an executor comes into being, prepared, in a step of its submitter
\* that comes before the push; the push puts a prepared executor on the pending
\* queue; from then on every step that changes the executor, and every step
\* that changes the timer index, is a step of the I/O thread inside one of its
\* callbacks (no producer moves in it and no request is being submitted by it).
C25_ExecutorConfined ==
    /\ [][\A e \in ReqIds :
              executors'[e] # executors[e] =>
                  IF executors[e].state = "none"
                  THEN /\ pc[requests[e].by] = "count"
                       /\ cur[requests[e].by] = e
                       /\ pc'[requests[e].by] = "push"
                       /\ executors'[e] = PreparedExecutor(e)
                       /\ e \notin Range(m_pending_requests')
                  ELSE /\ \A t \in Producers : pc'[t] = pc[t]
                       /\ requests' = requests
                       /\ dtor_pc' = dtor_pc
                       /\ io_pc \in {"drain", "check", "handler", "timesup"}]_vars
    /\ [][\A e \in Range(m_pending_requests') \ Range(m_pending_requests) :
              /\ pc[requests[e].by] = "push"
              /\ executors[e] = PreparedExecutor(e)
              /\ executors'[e] = executors[e]]_vars
    /\ [][m_timesup' # m_timesup =>
              /\ \A t \in Producers : pc'[t] = pc[t]
              /\ requests' = requests
              /\ dtor_pc' = dtor_pc
              /\ io_pc \in {"drain", "check", "handler", "timesup"}]_vars

\* The I/O thread is inside a callback with the first executor in the multi
\* handle and in the timer index, while a producer is inside StartRequest with
\* the second one.
C25_Witness ==
    /\ 1 \in multi
    /\ EntriesOf(1) # {}
    /\ io_pc = "check"
    /\ \E t \in Producers : pc[t] = "send" /\ cur[t] = 2


\* C27: outside the time's-up callback (which uv enters with its one-shot
\* timer stopped) the time's-up timer is armed exactly when the timer index is
\* not empty, and it is then due at the first (smallest) deadline of the index,
\* or was started with timeout 0 when that deadline had passed already. Inside
\* the callback the timer is armed again as soon as an entry has been removed
\* and others remain.
C27_TimerFollowsIndex ==
    LET in_callback == \/ io_pc = "timesup"
                       \/ io_pc = "handler" /\ cb.from = "timesup"
    IN  /\ ~in_callback => (timesup_timer.armed <=> m_timesup # <<>>)
        /\ (in_callback /\ timesup_timer.armed) => m_timesup # <<>>
        /\ (timesup_timer.armed /\ m_timesup # <<>>) =>
               \/ timesup_timer.due = m_timesup[1].tp
               \/ /\ timesup_timer.slack = 0
                  /\ m_timesup[1].tp <= timesup_timer.due
                  /\ timesup_timer.due <= clock

\* The callback has timed the first entry out and returned, the index still
\* holds a later entry and the timer is armed for it.
C27_Witness ==
    /\ io_pc = "idle"
    /\ \E k \in 1..Len(deliveries) : deliveries[k].path = "timesup"
    /\ m_timesup # <<>>
    /\ timesup_timer.armed
    /\ timesup_timer.due = m_timesup[1].tp
    /\ timesup_timer.due > clock


\* The executors the drain has taken from the pending queue and not yet come to.
Unprocessed ==
    {m_grabbed_requests[k] : k \in {j \in 1..Len(m_grabbed_requests) :
                                        j > drain_idx \/ (j = drain_idx /\ io_pc = "drain")}}

\* The executors in the pending queue, in the scratch queue or registered with
\* the multi handle.
Queued == Range(m_pending_requests) \cup Unprocessed \cup multi

\* C28 as stated: in every state the active request count is the number of
\* executors in the pending queue, in the scratch queue or in the multi handle.
C28_CountIsQueued ==
    m_active_request_count = Cardinality(Queued)

\* C28: the active request count is the number of executors in the pending
\* queue, the scratch queue or the multi handle, plus the StartRequest calls
\* that have counted their request and not yet pushed it, plus the completion
\* (by the transport or by rejection) whose handler is running; it goes up by
\* one in StartRequest and nowhere else, down by one when an executor is
\* destroyed and nowhere else, is left alone by a time's-up delivery and is
\* never negative; a destroyed executor stays destroyed.
C28_CountIsAccepted ==
    /\ [](/\ m_active_request_count =
                 Cardinality(Queued)
                 + Cardinality({t \in Callers : pc[t] \in {"push", "emplace"}})
                 + (IF io_pc = "handler" /\ cb.from \in {"check", "reject"} THEN 1 ELSE 0)
          /\ m_active_request_count >= 0)
    /\ [][/\ m_active_request_count' # m_active_request_count =>
                 \/ /\ m_active_request_count' = m_active_request_count + 1
                    /\ \E t \in Callers : pc[t] = "count" /\ pc'[t] = "push"
                                          /\ requests[cur[t]].result = "started"
                 \/ /\ m_active_request_count' = m_active_request_count - 1
                    /\ Cardinality({e \in ReqIds : /\ executors[e].state = "alive"
                                                   /\ executors'[e].state = "destroyed"}) = 1
                    /\ deliveries' = deliveries
                    /\ cb.from # "timesup"
          /\ (Len(deliveries') > Len(deliveries)
                /\ deliveries'[Len(deliveries')].path = "timesup")
                 => m_active_request_count' = m_active_request_count
          /\ \A e \in ReqIds :
                 /\ executors[e].state = "destroyed" => executors'[e].state = "destroyed"
                 /\ (executors[e].state = "alive" /\ executors'[e].state = "destroyed")
                        => m_active_request_count' = m_active_request_count - 1]_vars

\* The transport has completed the only request and its handler is running:
\* nothing is queued or registered and the count is still 1.
C28_Witness ==
    /\ io_pc = "handler"
    /\ cb.from = "check"
    /\ Queued = {}
    /\ m_active_request_count = 1
    /\ \A t \in Callers : pc[t] = "idle"


\* C29: once a request has been moved into its on-complete callback the
\* executor holds no pointer to it, and the loop no longer goes through the
\* executor's request pointer: every completion that checkActions or the drain
\* processes (completeRequestNormal evaluates m_request_async-> first of all)
\* finds the executor still owning its request.
C29_NoAccessAfterHandover ==
    /\ [](\A e \in ReqIds : InvocationsOf(e) # {} => executors[e].m_request_async = 0)
    /\ [][\A e \in ReqIds :
              \/ e \in multi \ multi'
              \/ (add_log' # add_log /\ multi' = multi /\ e = add_log'[Len(add_log')])
              => executors[e].m_request_async = e]_vars



\* C32: a Data() or MimeField() call that throws std::logic_error leaves every
\* field of the Request as it was (body, method, MIME field list, both 'set'
\* flags); a Data() call that returns normally leaves the Request with the
\* given body, m_request_data_set, the method POST and an empty MIME field list.
C32_FailedCallKeepsRequest ==
    [][/\ (rq_last'.op \in {"Data", "MimeField"} /\ rq_last'.threw) => (rq' = rq)
       /\ (rq_last'.op = "Data" /\ ~rq_last'.threw)
              => (/\ rq'.m_request_data = rq_last'.data
                  /\ rq'.m_request_data_set
                  /\ rq'.m_method = "POST"
                  /\ rq'.m_mime_fields = <<>>
                  /\ ~rq'.m_mime_fields_set)]_vars

\* C32's case: Data("x") has just thrown on a Request that holds a MIME field,
\* an empty body and a method other than POST.
C32_Witness ==
    /\ rq_last.op = "Data"
    /\ rq_last.threw
    /\ rq_last.data = "x"
    /\ rq.m_mime_fields # <<>>
    /\ rq.m_mime_fields_set
    /\ ~rq.m_request_data_set
    /\ rq.m_request_data = ""
    /\ rq.m_method = "PUT"


\* The requests whose executor StartRequest has put on the pending queue.
Pushed ==
    {r \in ReqIds : /\ requests[r].used
                    /\ requests[r].result # "false"
                    /\ \A t \in Callers :
                           cur[t] = r => pc[t] \notin {"count", "push", "emplace"}}

\* The executors the drain's loop has come to.
Processed == Range(add_log)

\* C31: no pushed executor is lost or drained twice. In every state each pushed
\* executor is in exactly one place (the pending queue, the part of the scratch
\* queue the drain has not come to, or the log of processed executors), once;
\* an executor waiting in the pending queue has a wakeup pending or its
\* StartRequest is about to send one, and it has a drain to come: the I/O
\* thread is running uv_run and the async handle is open. The pending queue
\* changes only by one push at its end and by the swap that empties it into
\* the empty scratch queue; the scratch queue changes only by that swap and by
\* the clear at the end of a pass that has processed all of it; the drain
\* processes the scratch queue in order, one executor at a time.
C31_DrainedExactlyOnce ==
    /\ [](/\ Pushed = Range(m_pending_requests) \cup Unprocessed \cup Processed
          /\ Range(m_pending_requests) \cap Range(m_grabbed_requests) = {}
          /\ Range(m_pending_requests) \cap Processed = {}
          /\ Unprocessed \cap Processed = {}
          /\ Range(m_grabbed_requests) \ Unprocessed \subseteq Processed
          /\ Cardinality(Range(m_pending_requests)) = Len(m_pending_requests)
          /\ Cardinality(Range(m_grabbed_requests)) = Len(m_grabbed_requests)
          /\ Cardinality(Processed) = Len(add_log)
          /\ \A k \in 1..Len(m_pending_requests) :
                 \/ async_pending
                 \/ \E t \in Callers : /\ cur[t] = m_pending_requests[k]
                                       /\ pc[t] \in {"unlock", "send"}
                 \/ io_pc = "swap"
          /\ m_pending_requests # <<>> =>
                 /\ ~crashed
                 /\ io_pc # "exited"
                 /\ "async" \notin closing \cup m_closed)
    /\ [][/\ m_pending_requests' # m_pending_requests =>
                 \/ /\ \E e \in ReqIds \ Pushed :
                           m_pending_requests' = Append(m_pending_requests, e)
                    /\ m_grabbed_requests' = m_grabbed_requests
                 \/ /\ m_pending_requests' = <<>>
                    /\ m_grabbed_requests = <<>>
                    /\ m_grabbed_requests' = m_pending_requests
          /\ m_grabbed_requests' # m_grabbed_requests =>
                 \/ /\ m_grabbed_requests = <<>>
                    /\ m_grabbed_requests' = m_pending_requests
                    /\ m_pending_requests' = <<>>
                 \/ /\ m_grabbed_requests' = <<>>
                    /\ Range(m_grabbed_requests) \subseteq Processed
                    /\ m_pending_requests' = m_pending_requests
          /\ add_log' # add_log =>
                 /\ io_pc = "drain"
                 /\ drain_idx \in 1..Len(m_grabbed_requests)
                 /\ add_log' = Append(add_log, m_grabbed_requests[drain_idx])
                 /\ m_grabbed_requests' = m_grabbed_requests]_vars

====
